---- MODULE Spec2Model ----
(***************************************************************************)
(* Model of magnum_cluster_api/driver.py (BaseDriver): the node-group and  *)
(* cluster status resolvers, the Helm add-on reconciler, the resize and    *)
(* the cluster teardown, together with the external actors they observe    *)
(* (the Cluster API controllers, the Magnum conductor, Keystone).          *)
(*                                                                         *)
(* Every handler is modelled call by call: one step of a handler is the    *)
(* code up to and including its next remote call (a read or write of the   *)
(* Magnum database, the management cluster, the workload cluster or        *)
(* Keystone), so that the other actors can act between two calls.  The     *)
(* operators named after the handlers give the outcome of a whole call     *)
(* during which nothing else acts: they run the same steps to the end.     *)
(***************************************************************************)
EXTENDS Integers, Sequences, FiniteSets, TLC

\* ------------------------------------------------------------------ bounds
MaxReplicas == 1      \* replica counts reported by the control plane: 1..MaxReplicas
MaxGeneration == 2    \* observedGeneration values: 1..MaxGeneration
MaxValue == 2         \* values a Helm chart key can take: 1..MaxValue
MaxMachines == 2      \* Machine objects listed in the management cluster

\* ------------------------------------------------------------ Python values
\* An optional value: None (Python None, or a key absent from a dict) or Some(v).
None == <<>>
Some(v) == <<v>>
\* dict.get(key, default) on an optional entry.
Get(opt, default) == IF opt = None THEN default ELSE opt[1]
Opt(S) == {None} \cup {Some(v) : v \in S}

Prefixes == {"CREATE", "UPDATE", "DELETE"}
Suffixes == {"IN_PROGRESS", "COMPLETE", "FAILED"}
Status(action, suffix) == action \o "_" \o suffix
NodeGroupStatuses == {Status(a, s) : a \in Prefixes, s \in Suffixes}

\* status.split("_")[0]: the text before the first underscore.
SplitFirst(status) ==
    CHOOSE a \in Prefixes : \E s \in Suffixes : status = Status(a, s)

\* status.endswith("_COMPLETE")
EndsWithComplete(status) == \E a \in Prefixes : status = a \o "_COMPLETE"

\* ------------------------------------------------------------------- state
VARIABLES
    cluster,     \* the orchestration record: status, api_address, coe_version
                 \* and the order in which it lists its node groups
    ngs,         \* the record's node groups, by name (see NodeGroupNames)
    capi,        \* the Cluster API cluster resource
    kcp,         \* the KubeadmControlPlane object: None or Some(object)
    mds,         \* per worker node group, its MachineDeployment object
    helm,        \* per release, the values deployed in the workload cluster
    credential,  \* whether the cluster's application credential exists
    secrets,     \* the cluster's secrets that exist in the management cluster
    machines,    \* the Machine objects in the management cluster, as listed
    node_count,  \* per node group, the node_count its record holds
    passes,      \* per update_cluster_status pass, where it is and the
                 \* objects it holds in memory; a pass that has ended is
                 \* kept as it ended until another actor acts
    calls,       \* per other handler, the call under way: where it is and
                 \* what it holds in memory
    last,        \* the call that has just returned: what it was given, did
                 \* and returned
    log,         \* first occurrences of the teardown operations, in order
    start        \* the state in which the overlapping passes were started

vars == <<cluster, ngs, capi, kcp, mds, helm, credential, secrets, machines,
         node_count, passes, calls, last, log, start>>

\* The node groups of the record: the control-plane group and the default
\* worker group. A node group is identified by its position in this list.
NodeGroupNames == <<"master", "default-worker">>
NGIds == 1..Len(NodeGroupNames)
WorkerIds == {i \in NGIds : NodeGroupNames[i] # "master"}
RoleOf(i) == IF NodeGroupNames[i] = "master" THEN "master" ELSE "worker"

\* cluster.nodegroups: the database lists the node groups of a cluster in no
\* order the driver chooses; a listing is any arrangement of the node groups.
NodeGroupOrders ==
    {o \in [NGIds -> NGIds] : \A i, j \in NGIds : o[i] = o[j] => i = j}

\* cluster.default_ng_worker: the default worker group.
default_ng_worker == CHOOSE i \in NGIds : NodeGroupNames[i] = "default-worker"

Phases == {"ScalingUp", "ScalingDown", "Running", "Failed", "Unknown"}
FailureMessages == {"machine provisioning failed"}

\* The "status" dict of a KubeadmControlPlane object.
KcpStatuses ==
    [observedGeneration : Opt(1..MaxGeneration),
     ready : Opt(BOOLEAN),
     failureMessage : Opt(FailureMessages),
     updatedReplicas : Opt(1..MaxReplicas),
     replicas : Opt(1..MaxReplicas)]

\* kcp.obj: the object may have no "status" key yet.
KcpObjects == [status : Opt(KcpStatuses)]

\* md.obj: the object may have no "status" key yet, or a status without "phase".
MdObjects == [status : Opt([phase : Opt(Phases)])]

\* An object whose controller has not written a status yet.
NoStatus == [status |-> None]
\* A KubeadmControlPlane object with the status st.
Kcp(st) == [status |-> Some(st)]
\* A MachineDeployment object in the given phase.
Md(phase) == [status |-> Some([phase |-> Some(phase)])]

\* ------------------------------------------------- update_nodegroup_status
\* Faulty variant of ControlPlaneStatus: observedGeneration is ignored.
ControlPlaneStatus_NoGeneration(status, st) ==
    LET action == SplitFirst(status)
        ready == Get(st.ready, FALSE)
        updated_replicas == st.updatedReplicas
        replicas == st.replicas
    IN  IF updated_replicas # replicas THEN Status(action, "IN_PROGRESS")
        ELSE IF updated_replicas = replicas /\ ready THEN Status(action, "COMPLETE")
        ELSE status

\* The status the control-plane branch leaves on the node group (driver.py
\* 326-339), st being the "status" dict of the control plane object.
ControlPlaneStatus(status, st) ==
    LET generation == Get(st.observedGeneration, 1)
        action == IF generation > 1 THEN "UPDATE" ELSE SplitFirst(status)
        ready == Get(st.ready, FALSE)
        updated_replicas == st.updatedReplicas
        replicas == st.replicas
    IN  IF updated_replicas # replicas THEN Status(action, "IN_PROGRESS")
        ELSE IF updated_replicas = replicas /\ ready THEN Status(action, "COMPLETE")
        ELSE status

\* The fields the control-plane branch assigns (driver.py 336-340):
\* status_reason always, status in the two cases that assign it. An assigned
\* field is written by save() whether or not its value differs.
ControlPlaneAssigns(st) ==
    IF \/ st.updatedReplicas # st.replicas
       \/ st.updatedReplicas = st.replicas /\ Get(st.ready, FALSE)
    THEN {"status", "status_reason"}
    ELSE {"status_reason"}

\* Faulty variant of PhaseStatus: a _FAILED status is never recomputed.
PhaseStatus_FailedSticks(status, phase) ==
    LET action == SplitFirst(status)
    IN  IF status = Status(action, "FAILED") THEN status
        ELSE IF phase \in {"ScalingUp", "ScalingDown"} THEN Status(action, "IN_PROGRESS")
        ELSE IF phase = "Running" THEN Status(action, "COMPLETE")
        ELSE IF phase \in {"Failed", "Unknown"} THEN Status(action, "FAILED")
        ELSE status

\* Faulty variant of PhaseStatus: Running is taken for a scaling phase.
PhaseStatus_RunningInProgress(status, phase) ==
    LET action == SplitFirst(status)
    IN  IF phase \in {"ScalingUp", "ScalingDown", "Running"} THEN Status(action, "IN_PROGRESS")
        ELSE IF phase \in {"Failed", "Unknown"} THEN Status(action, "FAILED")
        ELSE status

\* The status the worker branch assigns for a machine deployment phase
\* (driver.py 350-357).
PhaseStatus(status, phase) ==
    LET action == SplitFirst(status)
    IN  IF phase \in {"ScalingUp", "ScalingDown"} THEN Status(action, "IN_PROGRESS")
        ELSE IF phase = "Running" THEN Status(action, "COMPLETE")
        ELSE IF phase \in {"Failed", "Unknown"} THEN Status(action, "FAILED")
        ELSE status

\* What update_nodegroup_status makes of the resource it fetched: the node
\* group object as it holds it then, the fields it assigned, whether the
\* autoscaler metadata is synced before the save, and how it goes on: "save",
\* "return" (nothing to save) or the exception it raises.
Resolved(ng, assigned, autoscaler, outcome) ==
    [ng |-> ng, assigned |-> assigned, autoscaler |-> autoscaler, outcome |-> outcome]

\* Faulty variant of Resolve: the control-plane branch keeps the failure
\* message only when the status changed.
Resolve_ReasonOnChange(ng, resource) ==
    IF ng.role = "master" THEN
        IF resource = None THEN Resolved(ng, {}, FALSE, "return")
        ELSE IF resource[1].status = None THEN Resolved(ng, {}, FALSE, "raise:KeyError")
        ELSE LET st == resource[1].status[1]
                 status == ControlPlaneStatus(ng.status, st)
             IN  Resolved([ng EXCEPT !.status = status,
                                     !.status_reason =
                                         IF status # ng.status
                                         THEN st.failureMessage ELSE None],
                          ControlPlaneAssigns(st), FALSE, "save")
    ELSE
        IF resource = None THEN
            IF SplitFirst(ng.status) = "DELETE"
            THEN Resolved([ng EXCEPT !.status = Status("DELETE", "COMPLETE")],
                          {"status"}, FALSE, "save")
            ELSE Resolved(ng, {}, FALSE, "return")
        ELSE IF resource[1].status = None THEN Resolved(ng, {}, FALSE, "raise:KeyError")
        ELSE IF resource[1].status[1].phase = None
             THEN Resolved(ng, {}, FALSE, "raise:KeyError")
        ELSE Resolved([ng EXCEPT !.status = PhaseStatus(@, resource[1].status[1].phase[1])],
                      {"status"}, TRUE, "save")

\* update_nodegroup_status from the fetched resource to the save (driver.py
\* 319-363). The control plane for role master: kcp.obj["status"] (330)
\* raises KeyError on an object without status, which line 326 tolerates.
\* The machine deployment otherwise: md.obj["status"]["phase"] (350) raises
\* KeyError on an object without status or without phase.
Resolve(ng, resource) ==
    IF ng.role = "master" THEN
        IF resource = None THEN Resolved(ng, {}, FALSE, "return")
        ELSE IF resource[1].status = None THEN Resolved(ng, {}, FALSE, "raise:KeyError")
        ELSE LET st == resource[1].status[1]
             IN  Resolved([ng EXCEPT !.status = ControlPlaneStatus(@, st),
                                     !.status_reason = st.failureMessage],
                          ControlPlaneAssigns(st), FALSE, "save")
    ELSE
        IF resource = None THEN
            IF SplitFirst(ng.status) = "DELETE"
            THEN Resolved([ng EXCEPT !.status = Status("DELETE", "COMPLETE")],
                          {"status"}, FALSE, "save")
            ELSE Resolved(ng, {}, FALSE, "return")
        ELSE IF resource[1].status = None THEN Resolved(ng, {}, FALSE, "raise:KeyError")
        ELSE IF resource[1].status[1].phase = None
             THEN Resolved(ng, {}, FALSE, "raise:KeyError")
        ELSE Resolved([ng EXCEPT !.status = PhaseStatus(@, resource[1].status[1].phase[1])],
                      {"status"}, TRUE, "save")

\* nodegroup.save(): the fields assigned on the object ng are written to the
\* stored row.
SaveNodeGroup(row, ng, assigned) ==
    [row EXCEPT !.status = IF "status" \in assigned THEN ng.status ELSE @,
                !.status_reason = IF "status_reason" \in assigned
                                  THEN ng.status_reason ELSE @]

\* No call under way.
NoSub == [pc |-> "none"]

\* An update_nodegroup_status call on the node group object ng, about to
\* fetch its resource: the object it holds, the fields it assigned, the
\* resource it fetched, the writes it issued and how it ended.
NodeGroupCall(ng) ==
    [pc |-> "get", ng |-> ng, assigned |-> {}, seen |-> None, ops |-> <<>>,
     result |-> ""]

\* One step of an update_nodegroup_status call: the code up to and including
\* its next remote call. resource is the node group's resource and row its
\* stored row, as they are now. save() of a node group whose row is gone
\* raises NodeGroupNotFound.
NodeGroupStep(call, resource, row) ==
    CASE call.pc = "get" ->
            LET r == Resolve(call.ng, resource)
                me == [call EXCEPT !.ng = r.ng, !.assigned = r.assigned,
                                   !.seen = resource]
            IN  [call |-> IF r.outcome = "return"
                          THEN [me EXCEPT !.pc = "done", !.result = "ok"]
                          ELSE IF r.outcome = "save"
                          THEN [me EXCEPT !.pc = IF r.autoscaler THEN "autoscaler"
                                                 ELSE "save"]
                          ELSE [me EXCEPT !.pc = "done", !.result = r.outcome],
                 row |-> row]
      [] call.pc = "autoscaler" ->
            [call |-> [call EXCEPT !.pc = "save",
                          !.ops = @ \o <<"set_autoscaler_metadata_in_machinedeployment">>],
             row |-> row]
      [] call.pc = "save" ->
            IF row.present
            THEN [call |-> [call EXCEPT !.pc = "done", !.assigned = {},
                                        !.ops = @ \o <<"nodegroup.save">>,
                                        !.result = "ok"],
                  row |-> SaveNodeGroup(row, call.ng, call.assigned)]
            ELSE [call |-> [call EXCEPT !.pc = "done", !.assigned = {},
                                        !.ops = @ \o <<"nodegroup.save">>,
                                        !.result = "raise:NodeGroupNotFound"],
                  row |-> row]

RECURSIVE RunNodeGroup(_, _, _)
RunNodeGroup(call, resource, row) ==
    IF call.pc = "done" THEN [call |-> call, row |-> row]
    ELSE LET r == NodeGroupStep(call, resource, row)
         IN  RunNodeGroup(r.call, resource, r.row)

\* update_nodegroup_status(context, cluster, nodegroup), given the resource of
\* the node group (the control plane for role master, else the machine
\* deployment): the node group it leaves, the writes it issues and how it
\* ends, "ok" or the exception it raises.
update_nodegroup_status(ng, resource) ==
    LET r == RunNodeGroup(NodeGroupCall(ng), resource, ng)
    IN  [ng |-> r.row, ops |-> r.call.ops, result |-> r.call.result]

\* resources.get_kubeadm_control_plane / resources.get_machine_deployment
ResourceOf(i, k, m) == IF RoleOf(i) = "master" THEN k ELSE m[i]

\* ---------------------------------------------------- _reconcile_helm_chart
ReleaseOrder == <<"cloud-controller-manager", "openstack-cinder-csi">>
Releases == {ReleaseOrder[j] : j \in 1..Len(ReleaseOrder)}
HelmKeys == {"tag", "cluster"}
\* A values dict: a mapping of some of the keys; the empty mapping is {}.
HelmValues == UNION {[K -> 1..MaxValue] : K \in SUBSET HelmKeys}
EmptyValues == [k \in {} |-> 1]

\* helm.GetValuesReleaseCommand, with HelmReleaseNotFound turned into {}
\* (driver.py 112-120). `deployed` is None when the release does not exist.
GetValues(deployed) ==
    IF deployed = None THEN EmptyValues ELSE deployed[1]

\* Faulty variant of NeedsUpgrade: the release is upgraded on every reconcile.
NeedsUpgrade_Always(cluster_values, generated_values) == TRUE

\* The comparison that decides the upgrade (driver.py 123).
NeedsUpgrade(cluster_values, generated_values) ==
    cluster_values # generated_values

\* A _reconcile_helm_chart call for a release and its desired values, about
\* to read the kubeconfig: the deployed values it found, the Helm commands it
\* ran and how it ended.
HelmCall(release, values) ==
    [pc |-> "kubeconfig", release |-> release, values |-> values, found |-> None,
     ops |-> <<>>, result |-> ""]

\* One step of a _reconcile_helm_chart call (driver.py 95-132): the
\* kubeconfig is read (capi_cluster.config_file() raises ClusterNotReady
\* without one), the deployed values are read, the release is upgraded.
HelmStep(call, kubeconfig, deployed) ==
    CASE call.pc = "kubeconfig" ->
            [call |-> IF kubeconfig THEN [call EXCEPT !.pc = "values"]
                      ELSE [call EXCEPT !.pc = "done", !.result = "ClusterNotReady"],
             deployed |-> deployed]
      [] call.pc = "values" ->
            LET cluster_values == GetValues(deployed)
                generated_values == call.values
                me == [call EXCEPT !.found = deployed,
                                   !.ops = @ \o <<"helm.get_values">>]
            IN  [call |-> IF NeedsUpgrade(cluster_values, generated_values)
                          THEN [me EXCEPT !.pc = "upgrade"]
                          ELSE [me EXCEPT !.pc = "done", !.result = "ok"],
                 deployed |-> deployed]
      [] call.pc = "upgrade" ->
            [call |-> [call EXCEPT !.pc = "done", !.ops = @ \o <<"helm.upgrade">>,
                                   !.result = "ok"],
             deployed |-> Some(call.values)]

RECURSIVE RunHelm(_, _, _)
RunHelm(call, kubeconfig, deployed) ==
    IF call.pc = "done" THEN [call |-> call, deployed |-> deployed]
    ELSE LET r == HelmStep(call, kubeconfig, deployed)
         IN  RunHelm(r.call, kubeconfig, r.deployed)

\* _reconcile_helm_chart(capi_cluster, release_name, chart_ref, values): the
\* deployed values it leaves, the Helm commands it runs and how it ends.
reconcile_helm_chart(kubeconfig, deployed, values) ==
    LET r == RunHelm(HelmCall("", values), kubeconfig, deployed)
    IN  [deployed |-> r.deployed, ops |-> r.call.ops, result |-> r.call.result]

\* ------------------------------------------------------ infrastructure view
Conditions == {"ControlPlaneReady", "InfrastructureReady", "Ready"}
Versions == {"v1.25.3", "v1.26.2"}
ApiAddress == "https://10.0.0.10:6443"
SecretOrder == <<"cloud-config", "ca", "etcd", "front-proxy", "service-account">>
SecretNames == {SecretOrder[j] : j \in 1..Len(SecretOrder)}

\* capi_cluster.cloud_controller_manager_values / cinder_csi_values: the values
\* generated from the infrastructure cluster.
TagOf(version) == IF version = "v1.25.3" THEN 1 ELSE 2
GeneratedValues(release, c) ==
    IF release = "cloud-controller-manager"
    THEN [k \in HelmKeys |-> IF k = "tag" THEN TagOf(c.kubernetes_version) ELSE 1]
    ELSE [k \in {"cluster"} |-> 1]

\* Faulty variant of CapiExists: an object marked for deletion counts as gone.
CapiExists_IgnoresDeleting(c) == c.state = "present"

\* capi_cluster.exists() and the get_or_none() result being an object: an
\* object marked for deletion still exists.
CapiExists(c) == c.state # "absent"

\* Faulty variant of ConditionsReady: the Ready condition is not required.
ConditionsReady_SkipReady(c) ==
    \A condition \in {"ControlPlaneReady", "InfrastructureReady"} : c.conditions[condition] = TRUE

\* The three conditions update_cluster_status requires (driver.py 200-202).
ConditionsReady(c) ==
    \A condition \in {"ControlPlaneReady", "InfrastructureReady", "Ready"} :
        c.conditions[condition] = TRUE

\* _reconcile_api_address (driver.py 68-79). capi_cluster.api_address is the
\* control plane endpoint, or raises ClusterNotReady while the infrastructure
\* has not assigned one.
reconcile_api_address(c, ca) ==
    IF ca.endpoint = None
    THEN [cluster |-> c, ops |-> <<>>, result |-> "ClusterNotReady"]
    ELSE IF c.api_address # ca.endpoint
         THEN [cluster |-> [c EXCEPT !.api_address = ca.endpoint],
               ops |-> <<"cluster.save">>, result |-> "ok"]
         ELSE [cluster |-> c, ops |-> <<>>, result |-> "ok"]

\* _reconcile_coe_version (driver.py 81-93).
reconcile_coe_version(c, ca) ==
    IF c.coe_version # Some(ca.kubernetes_version)
    THEN [cluster |-> [c EXCEPT !.coe_version = Some(ca.kubernetes_version)],
          ops |-> <<"cluster.save">>, result |-> "ok"]
    ELSE [cluster |-> c, ops |-> <<>>, result |-> "ok"]

SecretDeletes ==
    <<"CloudConfigSecret.delete", "ApiCertificateAuthoritySecret.delete",
      "EtcdCertificateAuthoritySecret.delete",
      "FrontProxyCertificateAuthoritySecret.delete",
      "ServiceAccountCertificateAuthoritySecret.delete">>

\* Faulty variant of DeletionWaitsForInfra: the cleanup never waits.
DeletionWaitsForInfra_Never(ca) == FALSE

\* if capi_cluster and capi_cluster.exists(): return (driver.py 218-219).
DeletionWaitsForInfra(ca) == CapiExists(ca)

\* Faulty variant of CompletedStatus: the update is never completed.
CompletedStatus_KeepsStatus(status) == status

\* Faulty variant of CompletedStatus: the commented-out transition is active.
CompletedStatus_CreateCompletes(status) ==
    IF status = "CREATE_IN_PROGRESS" THEN "CREATE_COMPLETE"
    ELSE IF status = "UPDATE_IN_PROGRESS" THEN "UPDATE_COMPLETE" ELSE status

\* The status the pass gives a cluster that passed every gate (driver.py
\* 210-213): the CREATE_IN_PROGRESS transition is commented out.
CompletedStatus(status) ==
    IF status = "UPDATE_IN_PROGRESS" THEN "UPDATE_COMPLETE" ELSE status

\* Faulty variant of Reload: the pass works on the object as fetched.
Reload_Skipped == <<>>

\* capi_cluster.reload() (driver.py 189).
Reload == <<"Cluster.reload">>

\* Faulty variant of NodeGroupGate: a node group that is not _COMPLETE does
\* not end the pass.
NodeGroupGate_IgnoresIncomplete(status) ==
    IF status = "DELETE_COMPLETE" THEN "destroy" ELSE "next"

\* The body of the loop over node_groups (driver.py 204-208) for a node group
\* of the given status: the pass returns, destroys the group or goes on.
NodeGroupGate(status) ==
    IF ~EndsWithComplete(status) THEN "return"
    ELSE IF status = "DELETE_COMPLETE" THEN "destroy"
    ELSE "next"

\* ------------------------------------------------------ update_cluster_status
\* A pass holds the record it was handed (cluster; given is the status it
\* had then), the node groups it listed and resolved (node_groups), the
\* infrastructure cluster object it fetched (capi_cluster), the nested
\* update_nodegroup_status or _reconcile_helm_chart call under way (sub, for
\* the node group or release at position `at`), the fields of the record it
\* has written to the database (wrote), the node groups it called destroy()
\* on, the operations it issued, in order, and how it ended.
Finish(pass, ops, result) ==
    [pass EXCEPT !.pc = "done", !.at = 0, !.sub = NoSub, !.ops = @ \o ops,
                 !.result = result]

\* The state a step of a handler reads and writes.
WorldOf(c, n, ca, k, m, h, cred, sec, ms, counts) ==
    [cluster |-> c, ngs |-> n, capi |-> ca, kcp |-> k, mds |-> m, helm |-> h,
     credential |-> cred, secrets |-> sec, machines |-> ms, node_count |-> counts]

\* for node_group in cluster.nodegroups (driver.py 169-172), from position j
\* of the listing on: update_nodegroup_status is called on the next node
\* group, and get_or_none() follows the last one.
ResolveFrom(pass, j) ==
    LET order == pass.cluster.nodegroups
        rest == {k \in j..Len(order) : pass.node_groups[order[k]].present}
    IN  IF rest = {} THEN [pass EXCEPT !.pc = "get", !.at = 0, !.sub = NoSub]
        ELSE LET k == CHOOSE k \in rest : \A l \in rest : k <= l
             IN  [pass EXCEPT !.pc = "resolve", !.at = k,
                              !.sub = NodeGroupCall(pass.node_groups[order[k]])]

\* cluster.nodegroups (driver.py 171): the node groups are listed once.
ListNodeGroups(pass, w) ==
    [pass |-> ResolveFrom([pass EXCEPT !.node_groups = w.ngs], 1), w |-> w]

\* The next call of the update_nodegroup_status call under way; an exception
\* it raises ends the pass.
ResolveNodeGroup(pass, w) ==
    LET i == pass.cluster.nodegroups[pass.at]
        r == NodeGroupStep(pass.sub, ResourceOf(i, w.kcp, w.mds), w.ngs[i])
        w2 == [w EXCEPT !.ngs[i] = r.row]
    IN  IF r.call.pc # "done" THEN [pass |-> [pass EXCEPT !.sub = r.call], w |-> w2]
        ELSE IF r.call.result # "ok"
        THEN [pass |-> Finish(pass, r.call.ops, r.call.result), w |-> w2]
        ELSE [pass |-> ResolveFrom([pass EXCEPT !.node_groups[i] = r.call.ng,
                                                !.ops = @ \o r.call.ops],
                                   pass.at + 1),
              w |-> w2]

\* get_or_none() and the branch on the status of the record the pass holds
\* (driver.py 177-187, 217-219).
GetCluster(pass, w) ==
    LET found == IF CapiExists(w.capi) THEN Some(w.capi) ELSE None
        me == [pass EXCEPT !.capi_cluster = found,
                           !.ops = @ \o <<"Cluster.get_or_none">>]
    IN  [pass |->
            IF me.cluster.status \in {"CREATE_IN_PROGRESS", "UPDATE_IN_PROGRESS"}
            THEN IF found = None THEN Finish(me, <<>>, "return:no-infra")
                 ELSE [me EXCEPT !.pc = "reload"]
            ELSE IF me.cluster.status = "DELETE_IN_PROGRESS"
            THEN IF found = None THEN [me EXCEPT !.pc = "find"]
                 ELSE [me EXCEPT !.pc = "exists"]
            ELSE Finish(me, <<>>, "return"),
         w |-> w]

\* _reconcile_helm_chart for release k of ReleaseOrder is called with the
\* values generated from the infrastructure cluster object (driver.py 97-111).
ReconcileHelm(pass, k) ==
    [pass EXCEPT !.pc = "helm", !.at = k,
                 !.sub = HelmCall(ReleaseOrder[k],
                                  GeneratedValues(ReleaseOrder[k], pass.capi_cluster[1]))]

\* _reconcile_coe_version up to its save (driver.py 81-93).
ReconcileCoeVersion(pass) ==
    LET v == reconcile_coe_version(pass.cluster, pass.capi_cluster[1])
    IN  IF v.ops # <<>> THEN [pass EXCEPT !.cluster = v.cluster, !.pc = "coe_version"]
        ELSE ReconcileHelm(pass, 1)

\* _reconcile_api_address up to its save (driver.py 68-79); ClusterNotReady
\* ends the pass (driver.py 196-197).
ReconcileApiAddress(pass) ==
    LET a == reconcile_api_address(pass.cluster, pass.capi_cluster[1])
    IN  IF a.result # "ok" THEN Finish(pass, <<>>, "return:ClusterNotReady")
        ELSE IF a.ops # <<>> THEN [pass EXCEPT !.cluster = a.cluster, !.pc = "api_address"]
        ELSE ReconcileCoeVersion(pass)

\* capi_cluster.reload() (driver.py 189); reload() of an object that is gone
\* raises the HTTP error of the API server.
ReloadCluster(pass, w) ==
    [pass |-> IF ~CapiExists(w.capi) THEN Finish(pass, Reload, "raise:HTTPError")
              ELSE ReconcileApiAddress([pass EXCEPT !.capi_cluster = Some(w.capi),
                                                    !.ops = @ \o Reload]),
     w |-> w]

\* cluster.save() of _reconcile_api_address (driver.py 79).
SaveApiAddress(pass, w) ==
    [pass |-> ReconcileCoeVersion([pass EXCEPT !.ops = @ \o <<"cluster.save">>,
                                               !.wrote = @ \cup {"api_address"}]),
     w |-> [w EXCEPT !.cluster.api_address = pass.cluster.api_address]]

\* cluster.save() of _reconcile_coe_version (driver.py 93).
SaveCoeVersion(pass, w) ==
    [pass |-> ReconcileHelm([pass EXCEPT !.ops = @ \o <<"cluster.save">>,
                                         !.wrote = @ \cup {"coe_version"}], 1),
     w |-> [w EXCEPT !.cluster.coe_version = pass.cluster.coe_version]]

\* The loop over node_groups (driver.py 204-208), from position j of the
\* listing on, up to its next destroy(): the pass returns at the first group
\* that is not _COMPLETE; after the last group the status is saved.
RECURSIVE GateFrom(_, _)
GateFrom(pass, j) ==
    LET order == pass.cluster.nodegroups
    IN  IF j > Len(order) THEN [pass EXCEPT !.pc = "save", !.at = 0]
        ELSE IF ~pass.node_groups[order[j]].present THEN GateFrom(pass, j + 1)
        ELSE LET gate == NodeGroupGate(pass.node_groups[order[j]].status)
             IN  IF gate = "return" THEN Finish(pass, <<>>, "return:nodegroup")
                 ELSE IF gate = "destroy" THEN [pass EXCEPT !.pc = "destroy", !.at = j]
                 ELSE GateFrom(pass, j + 1)

\* The three conditions (driver.py 200-202), then the loop over node_groups.
CheckConditions(pass) ==
    IF ~ConditionsReady(pass.capi_cluster[1]) THEN Finish(pass, <<>>, "return:condition")
    ELSE GateFrom(pass, 1)

\* The next call of the _reconcile_helm_chart call under way (driver.py
\* 193-198); ClusterNotReady ends the pass.
ReconcileRelease(pass, w) ==
    LET release == ReleaseOrder[pass.at]
        r == HelmStep(pass.sub, w.capi.kubeconfig, w.helm[release])
        w2 == [w EXCEPT !.helm[release] = r.deployed]
    IN  IF r.call.pc # "done" THEN [pass |-> [pass EXCEPT !.sub = r.call], w |-> w2]
        ELSE LET me == [pass EXCEPT !.sub = NoSub, !.ops = @ \o r.call.ops]
             IN  [pass |-> IF r.call.result # "ok"
                           THEN Finish(me, <<>>, "return:ClusterNotReady")
                           ELSE IF pass.at < Len(ReleaseOrder)
                           THEN ReconcileHelm(me, pass.at + 1)
                           ELSE CheckConditions(me),
                  w |-> w2]

\* ng.destroy() (driver.py 208); destroy() of a node group whose row is gone
\* raises NodeGroupNotFound.
DestroyNodeGroup(pass, w) ==
    LET i == pass.cluster.nodegroups[pass.at]
        me == [pass EXCEPT !.destroyed = @ \cup {i}]
    IN  IF ~w.ngs[i].present
        THEN [pass |-> Finish(me, <<"nodegroup.destroy">>, "raise:NodeGroupNotFound"),
              w |-> w]
        ELSE [pass |-> GateFrom([me EXCEPT !.ops = @ \o <<"nodegroup.destroy">>],
                                pass.at + 1),
              w |-> [w EXCEPT !.ngs[i].present = FALSE]]

\* The status assignment and cluster.save() (driver.py 210-215): the status
\* is written when it was assigned.
SaveStatus(pass, w) ==
    LET status == CompletedStatus(pass.cluster.status)
        assigned == status # pass.cluster.status
    IN  [pass |-> Finish([pass EXCEPT !.cluster.status = status,
                                      !.wrote = IF assigned THEN @ \cup {"status"} ELSE @],
                         <<"cluster.save">>, "saved"),
         w |-> IF assigned THEN [w EXCEPT !.cluster.status = status] ELSE w]

\* capi_cluster.exists() (driver.py 218-219).
CheckExists(pass, w) ==
    [pass |-> IF DeletionWaitsForInfra(w.capi)
              THEN Finish(pass, <<"Cluster.exists">>, "return:infra-exists")
              ELSE [pass EXCEPT !.pc = "find", !.ops = @ \o <<"Cluster.exists">>],
     w |-> w]

\* Faulty variant of CredentialNotFound: NotFound is not caught.
CredentialNotFound_Raises(pass) == Finish(pass, <<>>, "raise:NotFound")

\* except keystoneauth1.exceptions.http.NotFound: pass (driver.py 228-229):
\* the pass goes on to the secrets.
CredentialNotFound(pass) == [pass EXCEPT !.pc = "secret", !.at = 1]

\* application_credentials.find() (driver.py 224-227) raises NotFound when
\* the credential does not exist.
FindCredential(pass, w) ==
    LET me == [pass EXCEPT !.ops = @ \o <<"application_credentials.find">>]
    IN  [pass |-> IF w.credential THEN [me EXCEPT !.pc = "revoke"]
                  ELSE CredentialNotFound(me),
         w |-> w]

\* .delete() of the credential found (driver.py 227) raises NotFound when the
\* credential has gone since.
RevokeCredential(pass, w) ==
    LET me == [pass EXCEPT !.ops = @ \o <<"application_credential.delete">>]
    IN  [pass |-> IF w.credential THEN [me EXCEPT !.pc = "secret", !.at = 1]
                  ELSE CredentialNotFound(me),
         w |-> [w EXCEPT !.credential = FALSE]]

\* The delete of secret number pass.at (driver.py 231-239); a secret that is
\* gone is no error.
DeleteSecret(pass, w) ==
    LET me == [pass EXCEPT !.ops = @ \o <<SecretDeletes[pass.at]>>]
    IN  [pass |-> IF pass.at < Len(SecretOrder) THEN [me EXCEPT !.at = @ + 1]
                  ELSE [me EXCEPT !.pc = "complete", !.at = 0],
         w |-> [w EXCEPT !.secrets = @ \ {SecretOrder[pass.at]}]]

\* cluster.status = "DELETE_COMPLETE"; cluster.save() (driver.py 241-242).
SaveDeleted(pass, w) ==
    [pass |-> Finish([pass EXCEPT !.cluster.status = "DELETE_COMPLETE",
                                  !.wrote = @ \cup {"status"}],
                     <<"cluster.save">>, "saved"),
     w |-> [w EXCEPT !.cluster.status = "DELETE_COMPLETE"]]

\* One step of an update_cluster_status pass (driver.py 168-242): the code up
\* to and including its next remote call.
PassStep(pass, w) ==
    CASE pass.pc = "list" -> ListNodeGroups(pass, w)
      [] pass.pc = "resolve" -> ResolveNodeGroup(pass, w)
      [] pass.pc = "get" -> GetCluster(pass, w)
      [] pass.pc = "reload" -> ReloadCluster(pass, w)
      [] pass.pc = "api_address" -> SaveApiAddress(pass, w)
      [] pass.pc = "coe_version" -> SaveCoeVersion(pass, w)
      [] pass.pc = "helm" -> ReconcileRelease(pass, w)
      [] pass.pc = "destroy" -> DestroyNodeGroup(pass, w)
      [] pass.pc = "save" -> SaveStatus(pass, w)
      [] pass.pc = "exists" -> CheckExists(pass, w)
      [] pass.pc = "find" -> FindCredential(pass, w)
      [] pass.pc = "revoke" -> RevokeCredential(pass, w)
      [] pass.pc = "secret" -> DeleteSecret(pass, w)
      [] pass.pc = "complete" -> SaveDeleted(pass, w)

NewNodeGroup(i) ==
    [present |-> TRUE, role |-> RoleOf(i), status |-> "CREATE_IN_PROGRESS",
     status_reason |-> None]

NewCluster ==
    [status |-> "CREATE_IN_PROGRESS", api_address |-> None, coe_version |-> None,
     nodegroups |-> [i \in NGIds |-> i]]

\* A pass that has not been started.
IdlePass ==
    [pc |-> "idle", at |-> 0, given |-> "", cluster |-> NewCluster,
     node_groups |-> [i \in NGIds |-> NewNodeGroup(i)],
     capi_cluster |-> None, sub |-> NoSub, wrote |-> {}, ops |-> <<>>,
     result |-> "", destroyed |-> {}]

\* update_cluster_status is called with the record c.
Handed(c) == [IdlePass EXCEPT !.pc = "list", !.given = c.status, !.cluster = c]

RECURSIVE RunPass(_, _)
RunPass(pass, w) ==
    IF pass.pc = "done" THEN [pass |-> pass, w |-> w]
    ELSE LET r == PassStep(pass, w) IN RunPass(r.pass, r.w)

\* update_cluster_status(context, cluster): the record, node groups, releases,
\* credential and secrets it leaves, the operations it issues and how it ends.
update_cluster_status(c, n, ca, k, m, h, cred, sec) ==
    LET r == RunPass(Handed(c), WorldOf(c, n, ca, k, m, h, cred, sec, <<>>, <<>>))
    IN  [cluster |-> r.w.cluster, ngs |-> r.w.ngs, helm |-> r.w.helm,
         credential |-> r.w.credential, secrets |-> r.w.secrets,
         ops |-> r.pass.ops, result |-> r.pass.result]

\* ------------------------------------------- create_cluster, delete_cluster
\* create_cluster (driver.py 40-66): the calls it issues, in order, the
\* first one building the OpenStack client.
CreateClusterOps ==
    <<"get_openstack_api", "Namespace.apply",
      "application_credentials.create", "CloudConfigSecret.apply",
      "ApiCertificateAuthoritySecret.apply", "EtcdCertificateAuthoritySecret.apply",
      "FrontProxyCertificateAuthoritySecret.apply",
      "ServiceAccountCertificateAuthoritySecret.apply",
      "apply_cluster_from_magnum_cluster">>

\* The applies of the five secrets (driver.py 51-64).
SecretApplies == SubSeq(CreateClusterOps, 4, 8)

NoCapi ==
    [state |-> "absent", endpoint |-> None, kubeconfig |-> FALSE,
     kubernetes_version |-> "v1.25.3",
     conditions |-> [c \in Conditions |-> FALSE]]

\* What one call of create_cluster does: the credential is created, a secret
\* is applied, the infrastructure cluster is created.
CreateClusterCall(op, w) ==
    IF op = "application_credentials.create" THEN [w EXCEPT !.credential = TRUE]
    ELSE IF \E j \in 1..Len(SecretApplies) : SecretApplies[j] = op
    THEN [w EXCEPT !.secrets =
             @ \cup {SecretOrder[j] : j \in {k \in 1..Len(SecretApplies) :
                                                SecretApplies[k] = op}}]
    ELSE IF op = "apply_cluster_from_magnum_cluster" /\ w.capi.state = "absent"
    THEN [w EXCEPT !.capi = [NoCapi EXCEPT !.state = "present"]]
    ELSE w

\* Faulty variant of DeleteClusterOps: the cluster object is deleted first.
DeleteClusterOps_ClusterFirst ==
    <<"Cluster.delete", "delete_loadbalancers", "ClusterResourceSet.delete",
      "ClusterResourcesConfigMap.delete", "ClusterAutoscalerHelmRelease.delete">>

\* delete_cluster (driver.py 303-313): the deletes it issues, in order.
DeleteClusterOps ==
    <<"delete_loadbalancers", "ClusterResourceSet.delete",
      "ClusterResourcesConfigMap.delete", "Cluster.delete",
      "ClusterAutoscalerHelmRelease.delete">>

\* What one delete of delete_cluster does: the infrastructure cluster object
\* is marked for deletion and stays until its controller has torn it down.
DeleteClusterCall(op, w) ==
    IF op = "Cluster.delete" /\ w.capi.state = "present"
    THEN [w EXCEPT !.capi.state = "deleting"]
    ELSE w

\* ------------------------------------------------------------------ resize
\* A string that is split at "/" is a sequence of pieces, "/" being a piece of
\* its own: "openstack:///abc123" is <<"openstack:", "/", "/", "/", "abc123">>.
\* str.split("/")[-1]: the pieces after the last "/", all of them if there is
\* none.
RECURSIVE LastSegment(_)
LastSegment(s) ==
    IF s = <<>> THEN <<>>
    ELSE IF s[Len(s)] = "/" THEN <<>>
    ELSE Append(LastSegment(SubSeq(s, 1, Len(s) - 1)), s[Len(s)])

DeleteMachine == "cluster.x-k8s.io/delete-machine"
ClusterName == "kube-this"
InstanceIds == {"abc123", "def456"}

\* Whether machine m carries the two labels of the selector (driver.py
\* 260-268) for the node group named name.
Selected(m, name) == m.cluster = ClusterName /\ m.deployment = name

\* A resize_cluster call for node group ng: the machines it listed, the
\* position in that list of the machine it updates next, the operations it
\* issued and how it ended.
ResizeCall(ng, node_count_arg, nodes_to_remove) ==
    [pc |-> IF nodes_to_remove # {} THEN "list" ELSE "save", ng |-> ng,
     node_count |-> node_count_arg, nodes_to_remove |-> nodes_to_remove,
     listed |-> <<>>, at |-> 0, ops |-> <<>>, result |-> ""]

\* The loop over the machines listed (driver.py 270-277), from position j on,
\* up to its next machine.update(): a machine of the selection without
\* spec.providerID raises KeyError, a machine whose instance id is in
\* nodes_to_remove is annotated and updated; the node group is saved after
\* the last machine.
RECURSIVE MarkMachines(_, _)
MarkMachines(call, j) ==
    LET ms == call.listed
    IN  IF j > Len(ms) THEN [call EXCEPT !.pc = "save", !.at = 0]
        ELSE IF ~Selected(ms[j], NodeGroupNames[call.ng]) THEN MarkMachines(call, j + 1)
        ELSE IF ms[j].providerID = None
             THEN [call EXCEPT !.pc = "done", !.at = 0, !.result = "raise:KeyError"]
        ELSE LET instance_uuid == LastSegment(ms[j].providerID[1])
             IN  IF \E id \in call.nodes_to_remove : instance_uuid = <<id>>
                 THEN [call EXCEPT !.pc = "update", !.at = j]
                 ELSE MarkMachines(call, j + 1)

\* One step of a resize_cluster call (driver.py 247-282): the machines are
\* listed, a machine is updated with the annotation, the node group is saved
\* with the new count, the desired state is applied.
ResizeStep(call, ms, counts) ==
    CASE call.pc = "list" ->
            [call |-> MarkMachines([call EXCEPT !.listed = ms], 1),
             machines |-> ms, node_count |-> counts]
      [] call.pc = "update" ->
            [call |-> MarkMachines([call EXCEPT !.ops = @ \o <<"machine.update">>],
                                   call.at + 1),
             machines |-> [ms EXCEPT ![call.at].annotations = @ \cup {DeleteMachine}],
             node_count |-> counts]
      [] call.pc = "save" ->
            [call |-> [call EXCEPT !.pc = "apply", !.ops = @ \o <<"nodegroup.save">>],
             machines |-> ms,
             node_count |-> [counts EXCEPT ![call.ng] = call.node_count]]
      [] call.pc = "apply" ->
            [call |-> [call EXCEPT !.pc = "done",
                                   !.ops = @ \o <<"apply_cluster_from_magnum_cluster">>,
                                   !.result = "ok"],
             machines |-> ms, node_count |-> counts]

RECURSIVE RunResize(_, _, _)
RunResize(call, ms, counts) ==
    IF call.pc = "done" THEN [call |-> call, machines |-> ms, node_count |-> counts]
    ELSE LET r == ResizeStep(call, ms, counts)
         IN  RunResize(r.call, r.machines, r.node_count)

\* resize_cluster (driver.py 247-282) for node group nodegroup (None: the
\* default worker group): the machines and node counts it leaves, the
\* operations it issues in order and how it ends.
resize_cluster(ms, counts, node_count_arg, nodes_to_remove, nodegroup) ==
    LET ng == IF nodegroup = None THEN default_ng_worker ELSE nodegroup[1]
        r == RunResize(ResizeCall(ng, node_count_arg, nodes_to_remove), ms, counts)
    IN  [machines |-> r.machines, node_count |-> r.node_count,
         ops |-> r.call.ops, result |-> r.call.result]

\* ----------------------------------------------------------------- actions
\* What `last` records of the call that has just returned: the call, the node
\* group or release it was given, the status (and reason) it found, the
\* resource it fetched, the operations it issued in order, how it ended, and
\* whether it repeats the call that returned just before it began, on the
\* same resource state. For _reconcile_helm_chart, status and reason hold the
\* deployed and the desired values, and repeat says that the call follows an
\* upgrade to the same desired values. For resize_cluster, status holds
\* nodes_to_remove and the machines as the call listed them.
Call(op, target, status, reason, seen, ops, result, repeat) ==
    [op |-> op, target |-> target, status |-> status, reason |-> reason,
     seen |-> seen, ops |-> ops, result |-> result, repeat |-> repeat]

\* No call has just returned: op says who acted last.
NoCall(op) == Call(op, "", "", None, None, <<>>, "", FALSE)

\* The teardown operations whose first occurrences `log` keeps.
TeardownOps ==
    {"delete_loadbalancers", "ClusterResourceSet.delete",
     "ClusterResourcesConfigMap.delete", "Cluster.delete",
     "ClusterAutoscalerHelmRelease.delete", "application_credential.delete"}

RECURSIVE Logged(_, _)
Logged(l, ops) ==
    IF ops = <<>> THEN l
    ELSE Logged(IF Head(ops) \in TeardownOps /\ \A j \in 1..Len(l) : l[j] # Head(ops)
                THEN Append(l, Head(ops)) ELSE l,
                Tail(ops))

\* The state as it is now, and the state a step leaves.
World ==
    WorldOf(cluster, ngs, capi, kcp, mds, helm, credential, secrets, machines,
            node_count)

Becomes(w) ==
    /\ cluster' = w.cluster
    /\ ngs' = w.ngs
    /\ capi' = w.capi
    /\ kcp' = w.kcp
    /\ mds' = w.mds
    /\ helm' = w.helm
    /\ credential' = w.credential
    /\ secrets' = w.secrets
    /\ machines' = w.machines
    /\ node_count' = w.node_count

\* A pass that has ended is kept as it ended until another actor acts.
Forgotten ==
    [p \in DOMAIN passes |-> IF passes[p].pc = "done" THEN IdlePass ELSE passes[p]]

\* No handler other than update_cluster_status is under way.
NoCalls ==
    [create_cluster |-> 0, delete_cluster |-> 0, update_nodegroup_status |-> NoSub,
     delete_nodegroup |-> 0, resize_cluster |-> NoSub,
     reconcile_helm_chart |-> NoSub]

\* create_cluster (driver.py 40-66) issues its next call;
\* calls.create_cluster counts the calls it has issued.
CreateCluster ==
    LET k == calls.create_cluster + 1
    IN  /\ calls.create_cluster = 0
           => /\ cluster.status = "CREATE_IN_PROGRESS"
              /\ capi.state = "absent" /\ secrets = {} /\ ~credential
        /\ Becomes(CreateClusterCall(CreateClusterOps[k], World))
        /\ calls' = [calls EXCEPT !.create_cluster =
                        IF k = Len(CreateClusterOps) THEN 0 ELSE k]
        /\ last' = IF k = Len(CreateClusterOps)
                   THEN Call("create_cluster", "", cluster.status, None, None,
                             CreateClusterOps, "ok", FALSE)
                   ELSE NoCall("create_cluster")
        /\ passes' = Forgotten
        /\ UNCHANGED <<log, start>>

\* update_nodegroup_status, called on node group i as stored, issues its next
\* call.
UpdateNodegroupStatus(i) ==
    LET under_way == calls.update_nodegroup_status
        resource == ResourceOf(i, kcp, mds)
        me == IF under_way = NoSub
              THEN [pc |-> "running", target |-> i, given |-> ngs[i],
                    repeat |-> /\ last.op = "update_nodegroup_status"
                               /\ last.target = NodeGroupNames[i]
                               /\ last.result = "ok"
                               /\ last.seen = resource,
                    call |-> NodeGroupCall(ngs[i])]
              ELSE under_way
        r == NodeGroupStep(me.call, resource, ngs[i])
    IN  /\ IF under_way = NoSub THEN ngs[i].present ELSE under_way.target = i
        /\ ngs' = [ngs EXCEPT ![i] = r.row]
        /\ calls' = [calls EXCEPT !.update_nodegroup_status =
                        IF r.call.pc = "done" THEN NoSub
                        ELSE [me EXCEPT !.call = r.call]]
        /\ last' = IF r.call.pc = "done"
                   THEN Call("update_nodegroup_status", NodeGroupNames[i],
                             me.given.status, me.given.status_reason, r.call.seen,
                             r.call.ops, r.call.result, me.repeat)
                   ELSE NoCall("update_nodegroup_status")
        /\ UNCHANGED <<cluster, capi, kcp, mds, helm, credential, secrets>>
        /\ UNCHANGED <<machines, node_count, passes, log, start>>

\* The caller hands the record, as stored now, to update_cluster_status.
PassBegins(p) ==
    /\ passes[p].pc \in {"idle", "done"}
    /\ passes' = [passes EXCEPT ![p] = Handed(cluster)]
    /\ UNCHANGED <<cluster, ngs, capi, kcp, mds, helm, credential, secrets>>
    /\ UNCHANGED <<machines, node_count, calls, last, log, start>>

\* Pass p of update_cluster_status issues its next call.
UpdateClusterStatus(p) ==
    /\ passes[p].pc \notin {"idle", "done"}
    /\ LET r == PassStep(passes[p], World)
       IN  /\ Becomes(r.w)
           /\ passes' = [passes EXCEPT ![p] = r.pass]
           /\ log' = Logged(log, SubSeq(r.pass.ops, Len(passes[p].ops) + 1,
                                        Len(r.pass.ops)))
    /\ UNCHANGED <<calls, last, start>>

\* delete_cluster (driver.py 303-313) issues its next delete;
\* calls.delete_cluster counts the deletes it has issued.
DeleteCluster ==
    LET k == calls.delete_cluster + 1
    IN  /\ calls.delete_cluster = 0 => cluster.status \notin {"DELETE_COMPLETE"}
        /\ Becomes(DeleteClusterCall(DeleteClusterOps[k], World))
        /\ log' = Logged(log, <<DeleteClusterOps[k]>>)
        /\ calls' = [calls EXCEPT !.delete_cluster =
                        IF k = Len(DeleteClusterOps) THEN 0 ELSE k]
        /\ last' = IF k = Len(DeleteClusterOps)
                   THEN Call("delete_cluster", "", cluster.status, None, None,
                             DeleteClusterOps, "ok", FALSE)
                   ELSE NoCall("delete_cluster")
        /\ passes' = Forgotten
        /\ UNCHANGED <<start>>

\* delete_nodegroup (driver.py 373-381) on worker group i issues its next
\* call: the save of the status, then the apply of the desired state.
DeleteNodegroup(i) ==
    /\ IF calls.delete_nodegroup = 0
       THEN /\ ngs[i].present /\ ngs[i].role = "worker"
            /\ cluster.status \notin {"DELETE_IN_PROGRESS", "DELETE_COMPLETE"}
            /\ ngs' = [ngs EXCEPT ![i].status = "DELETE_IN_PROGRESS"]
            /\ calls' = [calls EXCEPT !.delete_nodegroup = i]
            /\ last' = NoCall("delete_nodegroup")
       ELSE /\ calls.delete_nodegroup = i
            /\ ngs' = ngs
            /\ calls' = [calls EXCEPT !.delete_nodegroup = 0]
            /\ last' = Call("delete_nodegroup", NodeGroupNames[i],
                            "DELETE_IN_PROGRESS", None, None,
                            <<"nodegroup.save", "apply_cluster_from_magnum_cluster">>,
                            "ok", FALSE)
    /\ UNCHANGED <<cluster, capi, kcp, mds, helm, credential, secrets>>
    /\ UNCHANGED <<machines, node_count, log, start>>
    /\ passes' = Forgotten

\* upgrade_cluster (driver.py 284-301): the desired state is applied with the
\* new template's Kubernetes version.
UpgradeCluster(version) ==
    /\ cluster.status \in {"CREATE_IN_PROGRESS", "UPDATE_COMPLETE"}
    /\ capi.state = "present"
    /\ version # capi.kubernetes_version
    /\ capi' = [capi EXCEPT !.kubernetes_version = version]
    /\ last' = Call("upgrade_cluster", "", cluster.status, None, None,
                    <<"apply_cluster_from_magnum_cluster">>, "ok", FALSE)
    /\ UNCHANGED <<cluster, ngs, kcp, mds, helm, credential, secrets>>
    /\ UNCHANGED <<machines, node_count, calls, log, start>>
    /\ passes' = Forgotten

\* _reconcile_helm_chart, called for one release with the given desired
\* values, issues its next call.
ReconcileHelmChart(release, values) ==
    LET under_way == calls.reconcile_helm_chart
        me == IF under_way = NoSub
              THEN [pc |-> "running",
                    repeat |-> /\ last.op = "_reconcile_helm_chart"
                               /\ last.target = release
                               /\ last.reason = values
                               /\ last.result = "ok"
                               /\ (last.repeat \/ \E j \in 1..Len(last.ops) :
                                                     last.ops[j] = "helm.upgrade"),
                    call |-> HelmCall(release, values)]
              ELSE under_way
        r == HelmStep(me.call, capi.kubeconfig, helm[release])
    IN  /\ IF under_way = NoSub THEN capi.state = "present"
           ELSE under_way.call.release = release /\ under_way.call.values = values
        /\ helm' = [helm EXCEPT ![release] = r.deployed]
        /\ calls' = [calls EXCEPT !.reconcile_helm_chart =
                        IF r.call.pc = "done" THEN NoSub
                        ELSE [me EXCEPT !.call = r.call]]
        /\ last' = IF r.call.pc = "done"
                   THEN Call("_reconcile_helm_chart", release, r.call.found, values,
                             None, r.call.ops, r.call.result,
                             me.repeat /\ r.call.result = "ok")
                   ELSE NoCall("_reconcile_helm_chart")
        /\ UNCHANGED <<cluster, ngs, capi, kcp, mds, credential, secrets>>
        /\ UNCHANGED <<machines, node_count, passes, log, start>>

\* resize_cluster, asked to bring a worker group to node_count_arg nodes,
\* removing the instances nodes_to_remove, issues its next call.
ResizeCluster(nodegroup, node_count_arg, nodes_to_remove) ==
    LET under_way == calls.resize_cluster
        ng == IF nodegroup = None THEN default_ng_worker ELSE nodegroup[1]
        me == IF under_way = NoSub
              THEN ResizeCall(ng, node_count_arg, nodes_to_remove)
              ELSE under_way
        r == ResizeStep(me, machines, node_count)
    IN  /\ under_way # NoSub
           => /\ under_way.ng = ng
              /\ under_way.node_count = node_count_arg
              /\ under_way.nodes_to_remove = nodes_to_remove
        /\ machines' = r.machines
        /\ node_count' = r.node_count
        /\ calls' = [calls EXCEPT !.resize_cluster =
                        IF r.call.pc = "done" THEN NoSub ELSE r.call]
        /\ last' = IF r.call.pc = "done"
                   THEN Call("resize_cluster", NodeGroupNames[ng],
                             [nodes_to_remove |-> nodes_to_remove,
                              machines |-> r.call.listed],
                             None, None, r.call.ops, r.call.result, FALSE)
                   ELSE NoCall("resize_cluster")
        /\ UNCHANGED <<cluster, ngs, capi, kcp, mds, helm, credential, secrets>>
        /\ UNCHANGED <<passes, log, start>>

\* ------------------------------------------------------------- environment
\* The infrastructure provider has created the instance of machine j and
\* sets its spec.providerID.
ProviderIdAssigned(j, id) ==
    /\ j \in 1..Len(machines)
    /\ machines[j].providerID = None
    /\ machines' = [machines EXCEPT ![j].providerID = Some(id)]
    /\ last' = NoCall("infrastructure")
    /\ UNCHANGED <<cluster, ngs, capi, kcp, mds, helm, credential, secrets>>
    /\ UNCHANGED <<node_count, passes, calls, log, start>>

\* The Magnum conductor marks the record after the driver call it made.
ConductorMarksDeleting ==
    /\ last.op = "delete_cluster" /\ last.result = "ok"
    /\ cluster' = [cluster EXCEPT !.status = "DELETE_IN_PROGRESS"]
    /\ last' = NoCall("conductor")
    /\ UNCHANGED <<ngs, capi, kcp, mds, helm, credential, secrets>>
    /\ UNCHANGED <<machines, node_count, calls, log, start>>
    /\ passes' = Forgotten

ConductorMarksUpdating ==
    /\ last.op \in {"upgrade_cluster", "delete_nodegroup"} /\ last.result = "ok"
    /\ cluster' = [cluster EXCEPT !.status = "UPDATE_IN_PROGRESS"]
    /\ last' = NoCall("conductor")
    /\ UNCHANGED <<ngs, capi, kcp, mds, helm, credential, secrets>>
    /\ UNCHANGED <<machines, node_count, calls, log, start>>
    /\ passes' = Forgotten

\* The infrastructure controllers assign the control plane endpoint and then
\* issue the kubeconfig.
EndpointAssigned ==
    /\ capi.state = "present"
    /\ \/ capi.endpoint = None /\ capi' = [capi EXCEPT !.endpoint = Some(ApiAddress)]
       \/ capi.endpoint # None /\ ~capi.kubeconfig
          /\ capi' = [capi EXCEPT !.kubeconfig = TRUE]
    /\ last' = NoCall("infrastructure")
    /\ UNCHANGED <<cluster, ngs, kcp, mds, helm, credential, secrets>>
    /\ UNCHANGED <<machines, node_count, calls, log, start>>
    /\ passes' = Forgotten

\* A condition of the infrastructure cluster changes, once the cluster is
\* reachable.
ConditionChanges(condition) ==
    /\ capi.state = "present" /\ capi.kubeconfig
    /\ capi' = [capi EXCEPT !.conditions[condition] = ~@]
    /\ last' = NoCall("infrastructure")
    /\ UNCHANGED <<cluster, ngs, kcp, mds, helm, credential, secrets>>
    /\ UNCHANGED <<machines, node_count, calls, log, start>>
    /\ passes' = Forgotten

\* The control plane object appears or its status changes, once the endpoint
\* is assigned.
KcpChanges(new) ==
    /\ capi.state = "present" /\ capi.endpoint # None
    /\ new # kcp
    /\ kcp' = new
    /\ last' = NoCall("infrastructure")
    /\ UNCHANGED <<cluster, ngs, capi, mds, helm, credential, secrets>>
    /\ UNCHANGED <<machines, node_count, calls, log, start>>
    /\ passes' = Forgotten

\* The machine deployment of worker group i appears, changes phase or goes.
MdChanges(i, new) ==
    /\ capi.state = "present" /\ capi.endpoint # None
    /\ new # mds[i]
    /\ mds' = [mds EXCEPT ![i] = new]
    /\ last' = NoCall("infrastructure")
    /\ UNCHANGED <<cluster, ngs, capi, kcp, helm, credential, secrets>>
    /\ UNCHANGED <<machines, node_count, calls, log, start>>
    /\ passes' = Forgotten

\* The infrastructure cluster marked for deletion is gone, with the control
\* plane and the machine deployments it owned.
CapiFinalized ==
    /\ capi.state = "deleting"
    /\ capi' = [capi EXCEPT !.state = "absent"]
    /\ kcp' = None
    /\ mds' = [i \in WorkerIds |-> None]
    /\ last' = NoCall("infrastructure")
    /\ UNCHANGED <<cluster, ngs, helm, credential, secrets>>
    /\ UNCHANGED <<machines, node_count, calls, log, start>>
    /\ passes' = Forgotten

\* The application credential is removed in Keystone by someone else.
CredentialRemoved ==
    /\ credential
    /\ credential' = FALSE
    /\ last' = NoCall("keystone")
    /\ UNCHANGED <<cluster, ngs, capi, kcp, mds, helm, secrets>>
    /\ UNCHANGED <<machines, node_count, calls, log, start>>
    /\ passes' = Forgotten

\* ---------------------------------------------------------- specifications
\* The passes that may overlap.
PassIds == {1, 2}

\* The record c with its node groups listed in any order.
Listed(c) == {[c EXCEPT !.nodegroups = o] : o \in NodeGroupOrders}

\* What the record and the infrastructure look like now.
Snapshot ==
    [cluster |-> cluster, ngs |-> ngs, capi |-> capi, kcp |-> kcp, mds |-> mds,
     helm |-> helm, credential |-> credential, secrets |-> secrets]

\* The snapshot kept while no passes overlap: the record before create_cluster.
NoStart ==
    [cluster |-> NewCluster, ngs |-> [i \in NGIds |-> NewNodeGroup(i)],
     capi |-> NoCapi, kcp |-> None, mds |-> [i \in WorkerIds |-> None],
     helm |-> [r \in Releases |-> None], credential |-> FALSE, secrets |-> {}]

\* No machines are listed and no handler is under way.
Quiescent ==
    /\ machines = <<>>
    /\ node_count = [i \in NGIds |-> 1]
    /\ passes = [p \in PassIds |-> IdlePass]
    /\ calls = NoCalls
    /\ last = NoCall("init")
    /\ log = <<>>

ReadyKcp ==
    [observedGeneration |-> Some(1), ready |-> Some(TRUE), failureMessage |-> None,
     updatedReplicas |-> Some(1), replicas |-> Some(1)]

\* The control plane objects and machine deployment objects a cluster passes
\* through while it converges: created without a status, then rolling out,
\* then ready.
KcpLifecycle ==
    {NoStatus} \cup
    {Kcp([ReadyKcp EXCEPT !.ready = Some(ru[1]), !.updatedReplicas = ru[2]]) :
        ru \in {<<FALSE, None>>, <<TRUE, Some(1)>>}}
MdLifecycle == {NoStatus} \cup {Md(p) : p \in {"ScalingUp", "Running"}}

\* The record as the conductor hands it to create_cluster: nothing exists yet.
Fresh ==
    /\ cluster \in Listed(NewCluster)
    /\ ngs = [i \in NGIds |-> NewNodeGroup(i)]
    /\ capi = NoCapi
    /\ kcp = None
    /\ mds = [i \in WorkerIds |-> None]
    /\ helm = [r \in Releases |-> None]
    /\ credential = FALSE
    /\ secrets = {}

\* The conditions in the order in which the infrastructure controllers meet
\* them; Ready, the summary of the others, may be lost again.
ConditionOrder == <<"InfrastructureReady", "ControlPlaneReady", "Ready">>

\* The life of a cluster: it is created, its infrastructure converges stage
\* by stage and it is upgraded, while one pass after the other polls it.
Init == Fresh /\ Quiescent /\ start = NoStart

Next ==
    \/ CreateCluster
    \/ PassBegins(1)
    \/ UpdateClusterStatus(1)
    \/ UpgradeCluster("v1.26.2")
    \/ ConductorMarksUpdating
    \/ EndpointAssigned
    \/ \E j \in 1..Len(ConditionOrder) :
         /\ \A h \in 1..(j - 1) : capi.conditions[ConditionOrder[h]]
         /\ j < Len(ConditionOrder) => ~capi.conditions[ConditionOrder[j]]
         /\ ConditionChanges(ConditionOrder[j])
    \/ \E o \in KcpLifecycle : KcpChanges(Some(o))
    \/ \E i \in WorkerIds, o \in MdLifecycle : MdChanges(i, Some(o))

Spec == Init /\ [][Next]_vars

\* The node-group resolver on its own: one node group of the record, in any
\* status, against every state of its infrastructure resource, while the
\* group may be deleted.
ReadyCapi ==
    [state |-> "present", endpoint |-> Some(ApiAddress), kubeconfig |-> TRUE,
     kubernetes_version |-> "v1.25.3",
     conditions |-> [c \in Conditions |-> TRUE]]

InitNG ==
    /\ cluster = [NewCluster EXCEPT !.api_address = Some(ApiAddress),
                                    !.coe_version = Some("v1.25.3")]
    /\ \E f \in NGIds :
         ngs \in [NGIds -> [present : BOOLEAN, role : {"master", "worker"},
                            status : NodeGroupStatuses,
                            status_reason : Opt({"earlier reason"})]]
         /\ \A i \in NGIds :
              /\ ngs[i].role = RoleOf(i)
              /\ ngs[i].present = (i = f)
              /\ i # f => ngs[i] = [NewNodeGroup(i) EXCEPT !.present = FALSE]
    /\ capi = ReadyCapi
    /\ kcp = None
    /\ mds = [i \in WorkerIds |-> None]
    /\ helm = [r \in Releases |-> None]
    /\ credential = TRUE
    /\ secrets = SecretNames
    /\ Quiescent
    /\ start = NoStart

NextNG ==
    \/ \E i \in NGIds : UpdateNodegroupStatus(i)
    \/ \E i \in WorkerIds : DeleteNodegroup(i)
    \/ \E o \in Opt(KcpObjects) :
         /\ ngs[1].present /\ calls.update_nodegroup_status = NoSub
         /\ KcpChanges(o)
    \/ \E o \in KcpLifecycle :
         /\ ngs[1].present /\ calls.update_nodegroup_status # NoSub
         /\ KcpChanges(Some(o))
    \/ \E i \in WorkerIds, o \in Opt(MdObjects) : ngs[i].present /\ MdChanges(i, o)

SpecNG == InitNG /\ [][NextNG]_vars

\* The add-on synchronizer on its own: every deployed state of the two
\* releases against every desired values dict.
InitHelm ==
    /\ cluster = NewCluster
    /\ ngs = [i \in NGIds |-> NewNodeGroup(i)]
    /\ capi \in {[ReadyCapi EXCEPT !.kubeconfig = b] : b \in BOOLEAN}
    /\ kcp = None
    /\ mds = [i \in WorkerIds |-> None]
    /\ helm \in [Releases -> Opt(HelmValues)]
    /\ credential = TRUE
    /\ secrets = SecretNames
    /\ Quiescent
    /\ start = NoStart

NextHelm == \E r \in Releases, v \in HelmValues : ReconcileHelmChart(r, v)

SpecHelm == InitHelm /\ [][NextHelm]_vars

\* Teardown: a cluster is deleted before create_cluster ran, right after it,
\* or once it has converged.
Converged ==
    /\ cluster \in [status : {"CREATE_IN_PROGRESS", "UPDATE_IN_PROGRESS", "UPDATE_COMPLETE"},
                    api_address : {Some(ApiAddress)},
                    coe_version : {Some("v1.25.3")},
                    nodegroups : NodeGroupOrders]
    /\ ngs = [i \in NGIds |-> [NewNodeGroup(i) EXCEPT !.status = "CREATE_COMPLETE"]]
    /\ capi = ReadyCapi
    /\ kcp = Some(Kcp(ReadyKcp))
    /\ mds = [i \in WorkerIds |-> Some(Md("Running"))]
    /\ helm = [r \in Releases |-> Some(GeneratedValues(r, ReadyCapi))]
    /\ credential = TRUE
    /\ secrets = SecretNames

\* The cluster right after create_cluster, before the infrastructure moved.
Created ==
    /\ cluster \in Listed(NewCluster)
    /\ ngs = [i \in NGIds |-> NewNodeGroup(i)]
    /\ capi = [NoCapi EXCEPT !.state = "present"]
    /\ kcp = None
    /\ mds = [i \in WorkerIds |-> None]
    /\ helm = [r \in Releases |-> None]
    /\ credential = TRUE
    /\ secrets = SecretNames

InitTeardown == (Fresh \/ Created \/ Converged) /\ Quiescent /\ start = NoStart

NextTeardown ==
    \/ DeleteCluster
    \/ ConductorMarksDeleting
    \/ PassBegins(1)
    \/ UpdateClusterStatus(1)
    \/ CapiFinalized
    \/ CredentialRemoved
    \/ \E i \in WorkerIds : MdChanges(i, None)

SpecTeardown == InitTeardown /\ [][NextTeardown]_vars

\* Updates: a converged cluster is upgraded and its worker group is deleted,
\* while one pass after the other polls it and the infrastructure follows.
InitUpdate ==
    /\ Converged
    /\ cluster.status \in {"CREATE_IN_PROGRESS", "UPDATE_COMPLETE"}
    /\ Quiescent
    /\ start = NoStart

NextUpdate ==
    \/ PassBegins(1)
    \/ UpdateClusterStatus(1)
    \/ \E i \in WorkerIds : DeleteNodegroup(i)
    \/ UpgradeCluster("v1.26.2")
    \/ ConductorMarksUpdating
    \/ ConditionChanges("Ready")
    \/ \E i \in WorkerIds, o \in {Md("Running"), Md("ScalingDown")} :
         MdChanges(i, Some(o))
    \/ \E i \in WorkerIds : ngs[i].status = "DELETE_IN_PROGRESS" /\ MdChanges(i, None)

SpecUpdate == InitUpdate /\ [][NextUpdate]_vars

\* A cluster that is being created, updated or deleted: its add-ons and
\* addresses synced or not, its control plane ready or not, its worker group
\* running, scaling up or being deleted, its infrastructure cluster there,
\* marked for deletion or gone.
InProgress ==
    /\ \E status \in {"CREATE_IN_PROGRESS", "UPDATE_IN_PROGRESS", "DELETE_IN_PROGRESS"},
          infra \in {"present", "deleting", "absent"},
          worker \in {<<"CREATE_COMPLETE", Some(Md("Running"))>>,
                      <<"CREATE_IN_PROGRESS", Some(Md("ScalingUp"))>>,
                      <<"DELETE_IN_PROGRESS", None>>},
          ready \in BOOLEAN, synced \in BOOLEAN, order \in NodeGroupOrders :
         /\ infra # "present" => status = "DELETE_IN_PROGRESS"
         /\ cluster = [status |-> status,
                       api_address |-> IF synced THEN Some(ApiAddress) ELSE None,
                       coe_version |-> IF synced THEN Some("v1.25.3") ELSE None,
                       nodegroups |-> order]
         /\ ngs = [i \in NGIds |->
                     [NewNodeGroup(i) EXCEPT
                        !.status = IF i \in WorkerIds THEN worker[1]
                                   ELSE IF ready THEN "CREATE_COMPLETE"
                                   ELSE "CREATE_IN_PROGRESS"]]
         /\ capi = IF infra = "absent" THEN NoCapi ELSE [ReadyCapi EXCEPT !.state = infra]
         /\ kcp = IF infra = "absent" THEN None
                  ELSE Some(Kcp([ReadyKcp EXCEPT
                                   !.ready = Some(ready),
                                   !.updatedReplicas = IF ready THEN Some(1) ELSE None]))
         /\ mds = [i \in WorkerIds |-> IF infra = "absent" THEN None ELSE worker[2]]
         /\ helm = [r \in Releases |->
                      IF synced THEN Some(GeneratedValues(r, ReadyCapi)) ELSE None]
    /\ credential = TRUE
    /\ secrets = SecretNames

\* Passes on their own: one update_cluster_status pass after the other on a
\* cluster in progress, while its infrastructure keeps changing and its
\* infrastructure cluster may go.
InitPasses == InProgress /\ Quiescent /\ start = NoStart

NextPasses ==
    \/ PassBegins(1)
    \/ UpdateClusterStatus(1)
    \/ CapiFinalized
    \/ ConditionChanges("Ready")
    \/ \E o \in KcpLifecycle \ {NoStatus} : KcpChanges(Some(o))
    \/ \E i \in WorkerIds, o \in {Md("ScalingUp"), Md("Running"), Md("Failed")} :
         MdChanges(i, Some(o))
    \/ \E i \in WorkerIds : MdChanges(i, None)

SpecPasses == InitPasses /\ [][NextPasses]_vars

\* Passes under fair polling: the scheduler calls update_cluster_status again
\* and again and every call the pass issues returns, so a pass that would
\* change something is eventually run to its end. The cluster is being
\* updated or deleted, nothing is synced yet, and only the infrastructure
\* acts besides the passes.
InitFair ==
    /\ InitPasses
    /\ cluster.status \in {"UPDATE_IN_PROGRESS", "DELETE_IN_PROGRESS"}
    /\ cluster.api_address = None
    /\ cluster.nodegroups = [i \in NGIds |-> i]
    /\ ngs[default_ng_worker].status = "DELETE_IN_PROGRESS"

NextFair ==
    \/ PassBegins(1)
    \/ UpdateClusterStatus(1)
    \/ CapiFinalized
    \/ ConditionChanges("Ready")

SpecFair ==
    InitFair /\ [][NextFair]_vars /\ WF_vars(PassBegins(1) \/ UpdateClusterStatus(1))

\* Overlapping passes: two update_cluster_status passes run call by call on a
\* cluster in progress, while the infrastructure cluster may go.
InitOverlap ==
    /\ InProgress
    /\ Quiescent
    /\ start = Snapshot

NextOverlap ==
    \/ \E p \in PassIds : passes[p].pc = "idle" /\ PassBegins(p)
    \/ \E p \in PassIds : UpdateClusterStatus(p)
    \/ CapiFinalized

SpecOverlap == InitOverlap /\ [][NextOverlap]_vars

\* Resize: a converged cluster whose management cluster lists up to
\* MaxMachines machines, of this cluster's node groups or of another cluster,
\* some of them still without an instance.
ProviderIDs ==
    {<<"openstack:", "/", "/", "/", id>> : id \in InstanceIds}
        \cup {<<"abc123", "/", "zzz999">>}

MachineObjects ==
    [cluster : {ClusterName, "kube-other"},
     deployment : {"default-worker", "gpu-worker"},
     providerID : Opt(ProviderIDs),
     annotations : {{}}]

MachineLists == UNION {[1..n -> MachineObjects] : n \in 0..MaxMachines}

InitResize ==
    /\ Converged
    /\ cluster.status = "UPDATE_COMPLETE"
    /\ cluster.nodegroups = [i \in NGIds |-> i]
    /\ machines \in MachineLists
    /\ node_count = [i \in NGIds |-> 1]
    /\ passes = [p \in PassIds |-> IdlePass]
    /\ calls = NoCalls
    /\ last = NoCall("init") /\ log = <<>>
    /\ start = NoStart

NextResize ==
    \/ \E ng \in Opt(WorkerIds), n \in 0..MaxMachines, r \in SUBSET InstanceIds :
         ResizeCluster(ng, n, r)
    \/ \E j \in 1..MaxMachines, id \in ProviderIDs : ProviderIdAssigned(j, id)

SpecResize == InitResize /\ [][NextResize]_vars


\* ------------------------------------------------------------------ claims
Has(l, x) == \E j \in 1..Len(l) : l[j] = x
Count(l, x) == Cardinality({j \in 1..Len(l) : l[j] = x})
Before(l, x, y) == \E j, k \in 1..Len(l) : j < k /\ l[j] = x /\ l[k] = y
IdOf(name) == CHOOSE i \in NGIds : NodeGroupNames[i] = name
PrefixOf(status) ==
    IF status \in {"CREATE_IN_PROGRESS", "CREATE_COMPLETE", "CREATE_FAILED"} THEN "CREATE"
    ELSE IF status \in {"UPDATE_IN_PROGRESS", "UPDATE_COMPLETE", "UPDATE_FAILED"} THEN "UPDATE"
    ELSE "DELETE"
CompleteStatuses == {"CREATE_COMPLETE", "UPDATE_COMPLETE", "DELETE_COMPLETE"}
ProgressStatuses == {"CREATE_IN_PROGRESS", "UPDATE_IN_PROGRESS"}

\* Pass p has just ended, having been handed the record in one of the statuses.
Ended(p, statuses) == passes[p].pc = "done" /\ passes[p].given \in statuses

\* C1: a pass that sets the cluster status to UPDATE_COMPLETE held every node
\* group it listed with a status ending in _COMPLETE, read the three
\* conditions ControlPlaneReady, InfrastructureReady and Ready as true, and
\* leaves the record's api_address and coe_version equal to the api_address
\* and kubernetes_version of the infrastructure cluster it read.
C1_UpdateCompleteOnlyWhenConverged ==
    \A p \in PassIds :
        (/\ Ended(p, {"UPDATE_IN_PROGRESS"})
         /\ "status" \in passes[p].wrote
         /\ cluster.status = "UPDATE_COMPLETE")
        => /\ \A i \in NGIds :
                passes[p].node_groups[i].present
                => passes[p].node_groups[i].status \in CompleteStatuses
           /\ passes[p].capi_cluster # None
           /\ passes[p].capi_cluster[1].conditions["ControlPlaneReady"] = TRUE
           /\ passes[p].capi_cluster[1].conditions["InfrastructureReady"] = TRUE
           /\ passes[p].capi_cluster[1].conditions["Ready"] = TRUE
           /\ passes[p].capi_cluster[1].endpoint # None
           /\ cluster.api_address = passes[p].capi_cluster[1].endpoint
           /\ cluster.coe_version = Some(passes[p].capi_cluster[1].kubernetes_version)

\* C1 witness: a pass completed an update in which the Kubernetes version
\* had changed and a worker group had been deleted.
C1_Witness ==
    \E p \in PassIds :
        /\ Ended(p, {"UPDATE_IN_PROGRESS"})
        /\ "status" \in passes[p].wrote
        /\ cluster.status = "UPDATE_COMPLETE"
        /\ cluster.coe_version = Some("v1.26.2")
        /\ passes[p].destroyed # {}

\* C2 as stated: whenever the delete of the infrastructure cluster object has
\* been issued, the application credential was revoked before it.
C2_CredentialRevokedBeforeClusterDelete ==
    Has(log, "Cluster.delete")
    => Before(log, "application_credential.delete", "Cluster.delete")

\* C2 amended: the credential is revoked only after the dependents and the
\* infrastructure cluster object were deleted, in that order, and only once
\* the infrastructure cluster resource no longer exists.
C2_CredentialRevokedAfterClusterGone ==
    Has(log, "application_credential.delete")
    => /\ Before(log, "delete_loadbalancers", "ClusterResourceSet.delete")
       /\ Before(log, "ClusterResourceSet.delete", "ClusterResourcesConfigMap.delete")
       /\ Before(log, "ClusterResourcesConfigMap.delete", "Cluster.delete")
       /\ Before(log, "Cluster.delete", "application_credential.delete")
       /\ capi.state = "absent"

\* C2 witness: a teardown pass has just revoked the credential of a cluster
\* whose infrastructure had existed.
C2_Witness ==
    \E p \in PassIds :
        /\ passes[p].given = "DELETE_IN_PROGRESS"
        /\ passes[p].capi_cluster # None
        /\ Has(passes[p].ops, "application_credential.delete")
        /\ Has(log, "application_credential.delete")
        /\ ~credential

IsClusterDelete(op) ==
    op \in {"delete_loadbalancers", "ClusterResourceSet.delete",
            "ClusterResourcesConfigMap.delete", "Cluster.delete",
            "ClusterAutoscalerHelmRelease.delete"}

\* C3: delete_cluster issues, one after the other, the deletes of the load
\* balancers, the cluster resource set, the cluster resources config map, the
\* infrastructure cluster object and the autoscaler release, in this order:
\* at every point of a call the deletes issued so far are the first ones of
\* this order.
C3_DeleteClusterOrder ==
    LET order == <<"delete_loadbalancers", "ClusterResourceSet.delete",
                   "ClusterResourcesConfigMap.delete", "Cluster.delete",
                   "ClusterAutoscalerHelmRelease.delete">>
        issued == SelectSeq(log, IsClusterDelete)
    IN  /\ issued = SubSeq(order, 1, Len(issued))
        /\ Len(issued) >= calls.delete_cluster
        /\ last.op = "delete_cluster" /\ last.result = "ok"
           => last.ops = order /\ issued = order

\* C3 witness: delete_cluster has returned on a cluster whose infrastructure
\* existed.
C3_Witness ==
    /\ last.op = "delete_cluster" /\ last.result = "ok"
    /\ capi.state = "deleting"
    /\ Len(last.ops) = 5

DeletionOps ==
    {"application_credential.delete", "CloudConfigSecret.delete",
     "ApiCertificateAuthoritySecret.delete", "EtcdCertificateAuthoritySecret.delete",
     "FrontProxyCertificateAuthoritySecret.delete",
     "ServiceAccountCertificateAuthoritySecret.delete"}

\* C4: a pass that was handed the cluster in DELETE_IN_PROGRESS and ends
\* while the infrastructure cluster resource exists has returned at the
\* existence check: the status is still DELETE_IN_PROGRESS, it revoked no
\* credential and deleted none of the five secrets; and a pass that has
\* revoked the credential or deleted a secret was handed the cluster in
\* DELETE_IN_PROGRESS and found the infrastructure cluster resource gone.
C4_DeletionWaitsForInfrastructure ==
    \A p \in PassIds :
        /\ (Ended(p, {"DELETE_IN_PROGRESS"}) /\ capi.state # "absent")
           => /\ passes[p].result = "return:infra-exists"
              /\ cluster.status = "DELETE_IN_PROGRESS"
              /\ "status" \notin passes[p].wrote
              /\ \A j \in 1..Len(passes[p].ops) : passes[p].ops[j] \notin DeletionOps
              /\ secrets = SecretNames
        /\ (\E j \in 1..Len(passes[p].ops) : passes[p].ops[j] \in DeletionOps)
           => /\ capi.state = "absent"
              /\ passes[p].given = "DELETE_IN_PROGRESS"

\* C4 witness: a pass ended while the infrastructure cluster was being
\* deleted and the credential still existed.
C4_Witness ==
    \E p \in PassIds :
        /\ Ended(p, {"DELETE_IN_PROGRESS"})
        /\ passes[p].result = "return:infra-exists"
        /\ capi.state = "deleting"
        /\ credential

\* C5: a pass that was handed the cluster in DELETE_IN_PROGRESS and ends with
\* the infrastructure cluster resource absent has ended normally whether or
\* not the credential existed, has deleted the cloud-config secret and the
\* four certificate-authority secrets, and after them has set and saved
\* DELETE_COMPLETE.
C5_DeletionCompletes ==
    \A p \in PassIds :
        (Ended(p, {"DELETE_IN_PROGRESS"}) /\ capi.state = "absent")
        => /\ passes[p].result = "saved"
           /\ "status" \in passes[p].wrote
           /\ cluster.status = "DELETE_COMPLETE"
           /\ secrets = {}
           /\ ~credential
           /\ Has(passes[p].ops, "application_credentials.find")
           /\ \A d \in DeletionOps \ {"application_credential.delete"} :
                /\ Count(passes[p].ops, d) = 1
                /\ Before(passes[p].ops, d, "cluster.save")
           /\ passes[p].ops[Len(passes[p].ops)] = "cluster.save"

\* C5 witness: the pass completed the deletion although the credential was
\* already gone.
C5_Witness ==
    \E p \in PassIds :
        /\ Ended(p, {"DELETE_IN_PROGRESS"})
        /\ cluster.status = "DELETE_COMPLETE"
        /\ ~Has(passes[p].ops, "application_credential.delete")
        /\ Has(passes[p].ops, "ServiceAccountCertificateAuthoritySecret.delete")

\* C6 as stated: a call of update_nodegroup_status that repeats a call on the
\* same node group with the infrastructure unchanged leaves status and
\* status_reason as they are and issues no write at all.
C6_RepeatedResolveWritesNothing ==
    (last.op = "update_nodegroup_status" /\ last.repeat)
    => /\ ngs[IdOf(last.target)].status = last.status
       /\ ngs[IdOf(last.target)].status_reason = last.reason
       /\ last.ops = <<>>

\* C6 amended: such a repeated call writes no status and no status_reason
\* other than the ones the node group had when it was called; the only
\* operations it issues are the ones it issues on every call (nodegroup.save
\* and, for a worker whose machine deployment exists, the autoscaler metadata
\* sync).
C6_RepeatedResolveKeepsStatus ==
    (last.op = "update_nodegroup_status" /\ last.repeat)
    => /\ Has(last.ops, "nodegroup.save")
          => ngs[IdOf(last.target)].status = last.status
       /\ ngs[IdOf(last.target)].status_reason = last.reason
       /\ \A j \in 1..Len(last.ops) :
            last.ops[j] \in {"nodegroup.save", "set_autoscaler_metadata_in_machinedeployment"}

\* C6 witness: a repeated call on a control-plane group whose resource reports
\* a failure message, the status having been resolved to UPDATE_COMPLETE.
C6_Witness ==
    /\ last.op = "update_nodegroup_status" /\ last.repeat
    /\ last.target = "master"
    /\ last.seen # None /\ last.seen[1].status # None
    /\ last.seen[1].status[1].failureMessage # None
    /\ ngs[IdOf("master")].status = "UPDATE_COMPLETE"
    /\ Has(last.ops, "nodegroup.save")

\* C7: for a control-plane group whose resource exists and has a status, the
\* resolved status is {action}_IN_PROGRESS when updatedReplicas differs from
\* replicas, {action}_COMPLETE when they are equal and ready is true, and the
\* previous status otherwise, where action is UPDATE when observedGeneration
\* > 1 and the previous status prefix otherwise.
C7_ControlPlaneStatus ==
    (/\ last.op = "update_nodegroup_status" /\ last.target = "master"
     /\ last.seen # None /\ last.seen[1].status # None)
    => LET st == last.seen[1].status[1]
           generation == IF st.observedGeneration = None THEN 1
                         ELSE st.observedGeneration[1]
           action == IF generation > 1 THEN "UPDATE" ELSE PrefixOf(last.status)
           ready == st.ready = Some(TRUE)
           status == ngs[IdOf("master")].status
       IN  /\ last.result = "ok"
           /\ st.updatedReplicas # st.replicas => status = action \o "_IN_PROGRESS"
           /\ (st.updatedReplicas = st.replicas /\ ready)
                => status = action \o "_COMPLETE"
           /\ (st.updatedReplicas = st.replicas /\ ~ready) => status = last.status

\* C7 witness: a CREATE group whose control plane reports observedGeneration 2,
\* equal replica counts and ready resolves to UPDATE_COMPLETE.
C7_Witness ==
    /\ last.op = "update_nodegroup_status" /\ last.target = "master"
    /\ PrefixOf(last.status) = "CREATE"
    /\ last.seen # None /\ last.seen[1].status # None
    /\ last.seen[1].status[1].observedGeneration = Some(2)
    /\ last.seen[1].status[1].updatedReplicas = Some(1)
    /\ last.seen[1].status[1].replicas = Some(1)
    /\ last.seen[1].status[1].ready = Some(TRUE)
    /\ ngs[IdOf("master")].status = "UPDATE_COMPLETE"

\* The phase of the machine deployment object a call fetched, None when the
\* object carries none.
PhaseSeen ==
    IF last.seen = None THEN None
    ELSE IF last.seen[1].status = None THEN None
    ELSE last.seen[1].status[1].phase

\* C8: for a worker group whose machine deployment exists and reports a
\* phase, ScalingUp or ScalingDown resolves to {action}_IN_PROGRESS, Running
\* to {action}_COMPLETE and Failed or Unknown to {action}_FAILED, for the
\* status prefix the group had when the call was made.
C8_WorkerPhaseStatus ==
    \A i \in WorkerIds :
        (/\ last.op = "update_nodegroup_status"
         /\ last.target = NodeGroupNames[i]
         /\ PhaseSeen # None)
        => LET phase == PhaseSeen[1]
               action == PrefixOf(last.status)
           IN  /\ last.result = "ok"
               /\ phase \in {"ScalingUp", "ScalingDown"}
                    => ngs[i].status = action \o "_IN_PROGRESS"
               /\ phase = "Running" => ngs[i].status = action \o "_COMPLETE"
               /\ phase \in {"Failed", "Unknown"} => ngs[i].status = action \o "_FAILED"

\* C8 witness: phase Running with prefix UPDATE resolves to UPDATE_COMPLETE.
C8_Witness ==
    \E i \in WorkerIds :
        /\ last.op = "update_nodegroup_status" /\ last.target = NodeGroupNames[i]
        /\ last.status = "UPDATE_IN_PROGRESS"
        /\ PhaseSeen = Some("Running")
        /\ ngs[i].status = "UPDATE_COMPLETE"

\* C9 as stated: when a worker's machine deployment has phase Failed or
\* Unknown, or the control plane resource carries a failure message, the
\* resolved status is {action}_FAILED and status_reason is a failure message.
C9_FailurePropagated ==
    \A i \in NGIds :
        (/\ last.op = "update_nodegroup_status"
         /\ last.target = NodeGroupNames[i]
         /\ \/ RoleOf(i) = "worker" /\ PhaseSeen # None
               /\ PhaseSeen[1] \in {"Failed", "Unknown"}
            \/ RoleOf(i) = "master" /\ last.seen # None
               /\ last.seen[1].status # None
               /\ last.seen[1].status[1].failureMessage # None)
        => /\ ngs[i].status \in {"CREATE_FAILED", "UPDATE_FAILED", "DELETE_FAILED"}
           /\ ngs[i].status_reason \in {Some(m) : m \in FailureMessages}

\* C10: a reconcile that reaches the workload cluster runs no upgrade when the
\* deployed values ({} for a release that does not exist) equal the desired
\* values, and exactly one upgrade, leaving the desired values deployed,
\* otherwise; a reconcile that follows an upgrade to the same desired values
\* runs no upgrade.
C10_HelmReconcileWrites ==
    (last.op = "_reconcile_helm_chart" /\ last.result = "ok")
    => LET deployed == IF last.status = None THEN [k \in {} |-> 1] ELSE last.status[1]
           desired == last.reason
           upgrades == Count(last.ops, "helm.upgrade")
       IN  /\ deployed = desired => upgrades = 0 /\ helm[last.target] = last.status
           /\ deployed # desired => upgrades = 1 /\ helm[last.target] = Some(desired)
           /\ last.repeat => upgrades = 0

\* C10 witness: a reconcile found the values deployed by the upgrade before it
\* and ran no upgrade.
C10_Witness ==
    /\ last.op = "_reconcile_helm_chart" /\ last.result = "ok"
    /\ last.repeat
    /\ last.reason # [k \in {} |-> 1]
    /\ ~Has(last.ops, "helm.upgrade")

\* Whether the provider ID pid, split at "/", ends with the instance id.
EndsWithId(pid, id) ==
    \/ pid = <<id>>
    \/ Len(pid) >= 2 /\ pid[Len(pid)] = id /\ pid[Len(pid) - 1] = "/"

\* The machines of the list ms that a resize of the node group named name
\* with nodes_to_remove is to mark.
ToMark(ms, name, nodes_to_remove) ==
    {j \in 1..Len(ms) :
        /\ ms[j].cluster = ClusterName /\ ms[j].deployment = name
        /\ ms[j].providerID # None
        /\ \E id \in nodes_to_remove : EndsWithId(ms[j].providerID[1], id)}

\* C11 as stated: a resize_cluster call with a non-empty nodes_to_remove
\* annotates for deletion exactly the machines of this cluster and node group
\* whose provider-ID suffix is in nodes_to_remove, and no other machine, and
\* writes every annotation before it updates the node group's count and before
\* it applies the desired state.
C11_MarkedExactlyAndBeforeCount ==
    (/\ last.op = "resize_cluster" /\ last.result # ""
     /\ last.status.nodes_to_remove # {})
    => LET before == last.status.machines
           marked == ToMark(before, last.target, last.status.nodes_to_remove)
       IN  /\ Len(machines) = Len(before)
           /\ \A j \in 1..Len(before) :
                machines[j].annotations =
                    before[j].annotations
                        \cup (IF j \in marked THEN {DeleteMachine} ELSE {})
           /\ Count(last.ops, "machine.update") = Cardinality(marked)
           /\ \A j, k \in 1..Len(last.ops) :
                (/\ last.ops[j] = "machine.update"
                 /\ last.ops[k] \in {"nodegroup.save", "apply_cluster_from_magnum_cluster"})
                => j < k

\* Whether the pass has gone through the loop over its node groups.
GateRan(pass) ==
    \/ pass.pc = "save"
    \/ pass.pc = "done" /\ pass.given \in ProgressStatuses /\ pass.result = "saved"

\* C12, second part: every DELETE_COMPLETE node group a pass held when it
\* went through the loop over its node groups was destroyed by that pass.
C12_EveryDeleteCompleteRemoved ==
    \A p \in PassIds :
        GateRan(passes[p])
        => \A i \in NGIds :
             (/\ passes[p].node_groups[i].present
              /\ passes[p].node_groups[i].status = "DELETE_COMPLETE")
             => i \in passes[p].destroyed

\* C12, third part: over all passes, destroy() is called at most once on a
\* node group.
C12_DestroyedAtMostOnce ==
    \A i \in NGIds : Cardinality({p \in PassIds : i \in passes[p].destroyed}) <= 1

\* C12 as stated: a DELETE_COMPLETE node group is removed by the first pass
\* that reaches the node-group loop with it, every DELETE_COMPLETE group of
\* that pass is removed by that pass, and no node group is destroyed more than
\* once in any interleaving of passes.
C12_DeleteCompleteRemovedOnce ==
    C12_EveryDeleteCompleteRemoved /\ C12_DestroyedAtMostOnce

\* The two passes run one after the other from the state they started in.
Sequential ==
    LET first == update_cluster_status(start.cluster, start.ngs, start.capi,
                     start.kcp, start.mds, start.helm, start.credential, start.secrets)
    IN  update_cluster_status(first.cluster, first.ngs, start.capi, start.kcp,
            start.mds, first.helm, first.credential, first.secrets)

\* Both passes have ended and nothing but the passes acted: the
\* infrastructure cluster is as it was.
BothDoneUndisturbed ==
    /\ \A p \in PassIds : passes[p].pc = "done"
    /\ capi = start.capi

\* C17 as stated: in every interleaving of two passes over the same
\* infrastructure state neither pass ends with an error, and the stored cluster
\* status and node-group statuses equal those of the two passes run one after
\* the other.
C17_OverlappingPassesSafe ==
    BothDoneUndisturbed
    => /\ \A p \in PassIds :
            passes[p].result \notin
                {"raise:NodeGroupNotFound", "raise:NotFound", "raise:HTTPError",
                 "raise:KeyError"}
       /\ cluster.status = Sequential.cluster.status
       /\ \A i \in NGIds :
            /\ ngs[i].present = Sequential.ngs[i].present
            /\ ngs[i].present => ngs[i].status = Sequential.ngs[i].status

\* C20 as stated: once the stored cluster status is DELETE_IN_PROGRESS or
\* DELETE_COMPLETE, no step of a pass stores any other status over it.
C20_DeletionStatusNotRegressed ==
    [][cluster.status \in {"DELETE_IN_PROGRESS", "DELETE_COMPLETE"}
       => cluster'.status \in {"DELETE_IN_PROGRESS", "DELETE_COMPLETE"}]_vars

\* What makes a pass on a cluster in CREATE_IN_PROGRESS or UPDATE_IN_PROGRESS
\* abort, as the pass met it: the infrastructure cluster it asked for is
\* missing, has no endpoint or no kubeconfig yet, one of the three conditions
\* it read is not true, or a node group it holds has a status that does not
\* end in _COMPLETE.
NotReady(pass) ==
    \/ pass.capi_cluster = None
    \/ /\ pass.capi_cluster # None
       /\ \/ pass.capi_cluster[1].endpoint = None
          \/ ~pass.capi_cluster[1].kubeconfig
          \/ \E c \in {"ControlPlaneReady", "InfrastructureReady", "Ready"} :
               pass.capi_cluster[1].conditions[c] # TRUE
    \/ \E i \in NGIds :
         /\ pass.node_groups[i].present
         /\ pass.node_groups[i].status \notin CompleteStatuses

\* C13: a pass on a cluster in CREATE_IN_PROGRESS or UPDATE_IN_PROGRESS that
\* has asked for the infrastructure cluster and meets a not-ready condition
\* returns without raising and writes no status: the record it holds and the
\* stored record keep the status it was handed, unless the conductor changed
\* the stored one meanwhile.
C13_NotReadyKeepsStatus ==
    \A p \in PassIds :
        (/\ Ended(p, ProgressStatuses)
         /\ Has(passes[p].ops, "Cluster.get_or_none")
         /\ NotReady(passes[p]))
        => /\ passes[p].result \in {"return:no-infra", "return:ClusterNotReady",
                                    "return:condition", "return:nodegroup"}
           /\ "status" \notin passes[p].wrote
           /\ passes[p].cluster.status = passes[p].given
           /\ cluster.status \in {passes[p].given, "UPDATE_IN_PROGRESS"}

\* C13 witness: a pass on a cluster in UPDATE_IN_PROGRESS upgraded an add-on
\* and then returned at a node group that is not complete.
C13_Witness ==
    \E p \in PassIds :
        /\ Ended(p, {"UPDATE_IN_PROGRESS"})
        /\ passes[p].result = "return:nodegroup"
        /\ Has(passes[p].ops, "helm.upgrade")
        /\ cluster.status = "UPDATE_IN_PROGRESS"

\* C14: a pass never moves a cluster out of CREATE_IN_PROGRESS; the only
\* status changes a pass makes are UPDATE_IN_PROGRESS to UPDATE_COMPLETE and
\* DELETE_IN_PROGRESS to DELETE_COMPLETE, one of them at most, made by its
\* last operation.
C14_OnlyTwoTransitions ==
    \A p \in PassIds :
        passes[p].pc = "done"
        => /\ passes[p].given = "CREATE_IN_PROGRESS"
              => "status" \notin passes[p].wrote /\ cluster.status = "CREATE_IN_PROGRESS"
           /\ "status" \notin passes[p].wrote => cluster.status = passes[p].given
           /\ "status" \in passes[p].wrote
              => /\ \/ /\ passes[p].given = "UPDATE_IN_PROGRESS"
                       /\ cluster.status = "UPDATE_COMPLETE"
                    \/ /\ passes[p].given = "DELETE_IN_PROGRESS"
                       /\ cluster.status = "DELETE_COMPLETE"
                 /\ passes[p].result = "saved"

\* C14 witness: a pass on a cluster in CREATE_IN_PROGRESS found the three
\* conditions true and every node group complete, saved, and the cluster is
\* still in CREATE_IN_PROGRESS.
C14_Witness ==
    \E p \in PassIds :
        /\ Ended(p, {"CREATE_IN_PROGRESS"})
        /\ passes[p].result = "saved"
        /\ \A c \in Conditions : capi.conditions[c]
        /\ \A i \in NGIds : ngs[i].present => ngs[i].status \in CompleteStatuses
        /\ cluster.status = "CREATE_IN_PROGRESS"

\* Whether position k of the operations l comes after a Cluster.reload.
AfterReload(l, k) == \E j \in 1..(k - 1) : l[j] = "Cluster.reload"

\* C15 as stated: in a pass, the reload of the infrastructure cluster comes
\* before every decision that uses its state: the copies of api_address and
\* kubernetes_version, the add-on values, the check of the conditions, and the
\* existence check that gates the deletion cleanup.
C15_ReloadBeforeEveryDecision ==
    \A p \in PassIds :
        passes[p].pc = "done"
        => /\ \A k \in 1..Len(passes[p].ops) :
                passes[p].ops[k] \in {"cluster.save", "helm.get_values", "helm.upgrade",
                                      "Cluster.exists", "application_credentials.find"}
                => AfterReload(passes[p].ops, k)
           /\ passes[p].result \in {"return:ClusterNotReady", "return:condition",
                                    "return:nodegroup", "return:infra-exists", "saved"}
              => Has(passes[p].ops, "Cluster.reload")

\* C15, amended: in the CREATE_IN_PROGRESS / UPDATE_IN_PROGRESS branch the one
\* reload comes after get_or_none and before the copies, the add-on calls, the
\* check of the conditions and the node-group loop; the DELETE_IN_PROGRESS
\* branch never reloads: its existence check and its cleanup follow the
\* get_or_none of the same pass.
C15_ReloadBeforeProgressDecisions ==
    \A p \in PassIds :
        passes[p].pc = "done"
        => LET ops == passes[p].ops
               result == passes[p].result
           IN  /\ passes[p].given \in ProgressStatuses
                  => /\ \A k \in 1..Len(ops) :
                          ops[k] \in {"cluster.save", "helm.get_values", "helm.upgrade",
                                      "nodegroup.destroy"}
                          => AfterReload(ops, k)
                     /\ result \in {"return:ClusterNotReady", "return:condition",
                                    "return:nodegroup", "saved"}
                        => /\ Count(ops, "Cluster.reload") = 1
                           /\ Before(ops, "Cluster.get_or_none", "Cluster.reload")
                     /\ result = "return:no-infra" => ~Has(ops, "Cluster.reload")
               /\ passes[p].given = "DELETE_IN_PROGRESS"
                  => /\ ~Has(ops, "Cluster.reload")
                     /\ \A k \in 1..Len(ops) :
                          ops[k] \in {"Cluster.exists", "application_credentials.find",
                                      "cluster.save"}
                          => \E j \in 1..(k - 1) : ops[j] = "Cluster.get_or_none"

\* C15 witness: a pass reloaded, then copied the api_address, upgraded an
\* add-on and completed the update.
C15_Witness ==
    \E p \in PassIds :
        /\ Ended(p, {"UPDATE_IN_PROGRESS"})
        /\ cluster.status = "UPDATE_COMPLETE"
        /\ Before(passes[p].ops, "Cluster.reload", "cluster.save")
        /\ Before(passes[p].ops, "Cluster.reload", "helm.upgrade")
        /\ Count(passes[p].ops, "cluster.save") = 3

\* The infrastructure is converged: the infrastructure cluster exists with its
\* endpoint, its kubeconfig and the three conditions true, the control plane
\* has updatedReplicas = replicas and is ready, and every worker group's
\* machine deployment is Running, or is gone for a group that is being deleted.
InfraConverged ==
    /\ capi.state = "present"
    /\ capi.endpoint # None /\ capi.kubeconfig
    /\ \A c \in {"ControlPlaneReady", "InfrastructureReady", "Ready"} :
         capi.conditions[c] = TRUE
    /\ kcp # None
    /\ kcp[1].status # None
    /\ kcp[1].status[1].updatedReplicas = kcp[1].status[1].replicas
    /\ kcp[1].status[1].ready = Some(TRUE)
    /\ \A i \in WorkerIds :
         ngs[i].present
         => \/ mds[i] = Some(Md("Running"))
            \/ mds[i] = None
               /\ ngs[i].status \in {"DELETE_IN_PROGRESS", "DELETE_COMPLETE",
                                     "DELETE_FAILED"}

\* C16: under fair polling, a cluster in UPDATE_IN_PROGRESS whose
\* infrastructure is converged eventually reaches UPDATE_COMPLETE unless the
\* infrastructure stops being converged first, so once the infrastructure stays
\* converged the cluster eventually reaches UPDATE_COMPLETE, whatever passes
\* were aborted before; and a cluster in DELETE_IN_PROGRESS whose
\* infrastructure cluster is absent eventually reaches DELETE_COMPLETE unless
\* the infrastructure cluster comes back first.
C16_Convergence ==
    /\ (cluster.status = "UPDATE_IN_PROGRESS" /\ InfraConverged)
          ~> (cluster.status = "UPDATE_COMPLETE" \/ ~InfraConverged)
    /\ (cluster.status = "DELETE_IN_PROGRESS" /\ capi.state = "absent")
          ~> (cluster.status = "DELETE_COMPLETE" \/ capi.state # "absent")

\* C16 witness: the infrastructure is converged, with the machine deployment
\* of a worker group under deletion gone, and a pass has removed that group
\* and completed the update.
C16_Witness ==
    \E p \in PassIds :
        /\ InfraConverged
        /\ Ended(p, {"UPDATE_IN_PROGRESS"})
        /\ cluster.status = "UPDATE_COMPLETE"
        /\ Has(passes[p].ops, "nodegroup.destroy")
        /\ \E i \in WorkerIds : ~ngs[i].present /\ mds[i] = None

FailedStatuses == {"CREATE_FAILED", "UPDATE_FAILED", "DELETE_FAILED"}

\* C18 as stated: a call of update_nodegroup_status that saves a node group
\* whose status is {action}_FAILED leaves it in that status, whatever its
\* infrastructure resource reports.
C18_FailedIsTerminal ==
    (/\ last.op = "update_nodegroup_status" /\ last.status \in FailedStatuses
     /\ Has(last.ops, "nodegroup.save"))
    => ngs[IdOf(last.target)].status = last.status

\* C18, amended: update_nodegroup_status recomputes the status of a worker
\* group in {action}_FAILED from the current phase of its machine deployment:
\* it stays {action}_FAILED only while the phase is Failed or Unknown (or the
\* machine deployment is absent and the action is not DELETE, when nothing is
\* written), and becomes {action}_COMPLETE on Running, {action}_IN_PROGRESS on
\* ScalingUp or ScalingDown, and DELETE_COMPLETE when the machine deployment
\* of a DELETE_FAILED group is absent.
C18_FailedFollowsPhase ==
    \A i \in WorkerIds :
        (/\ last.op = "update_nodegroup_status"
         /\ last.target = NodeGroupNames[i]
         /\ last.status \in FailedStatuses
         /\ last.result = "ok")
        => LET action == PrefixOf(last.status)
           IN  IF last.seen = None
               THEN IF action = "DELETE" THEN ngs[i].status = "DELETE_COMPLETE"
                    ELSE last.ops = <<>>
               ELSE ngs[i].status =
                      IF PhaseSeen[1] \in {"Failed", "Unknown"} THEN last.status
                      ELSE IF PhaseSeen[1] = "Running" THEN action \o "_COMPLETE"
                      ELSE action \o "_IN_PROGRESS"

\* C18 witness: a worker group in CREATE_FAILED whose machine deployment is now
\* Running was resolved to CREATE_COMPLETE.
C18_Witness ==
    \E i \in WorkerIds :
        /\ last.op = "update_nodegroup_status"
        /\ last.target = NodeGroupNames[i]
        /\ last.status = "CREATE_FAILED"
        /\ PhaseSeen = Some("Running")
        /\ ngs[i].status = "CREATE_COMPLETE"

\* C19 as stated: no step marks a worker group DELETE_COMPLETE, or removes it
\* from the record, while its machine deployment still exists.
C19_DeleteCompleteOnlyWhenGone ==
    [][\A i \in WorkerIds :
          (/\ ngs[i].present
           /\ \/ ngs[i].status # "DELETE_COMPLETE" /\ ngs'[i].status = "DELETE_COMPLETE"
              \/ ~ngs'[i].present)
          => mds[i] = None]_vars

====
